---- MODULE Spec2Model ----
(***************************************************************************)
(* Retrieval orchestration of the curriculum RAG system: the filter        *)
(* inference and query expansion of rag/retriever.py, the hybrid retrieve  *)
(* pipeline (multi-variant vector search, lexical search, reciprocal rank  *)
(* fusion, attachment completion, year pruning, ordering), the lexical     *)
(* index of rag/bm25_index.py, the index rebuild of rag/indexer.py, the    *)
(* table chunking of rag/chunker.py and the runs of index_data.py.         *)
(*                                                                         *)
(* Text is a sequence of characters.  The Korean syllables of the source   *)
(* are written in romanised form, one string per syllable: "nae","gwa" is  *)
(* the first specialty name of config.py SPECIALTIES.  " " is a blank,  *)
(* "?" a question mark, "1".."9" digits.  Every metadata value and every   *)
(* chunk id is such a sequence, the empty string is << >>.                 *)
(***************************************************************************)
EXTENDS Integers, Sequences, FiniteSets, TLC

(***************************************************************************)
(* String primitives (Python str operations used by the source).           *)
(***************************************************************************)
Min(a, b) == IF a <= b THEN a ELSE b

Max(a, b) == IF a >= b THEN a ELSE b

\* kw occurs in q at position i
IsSubAt(q, kw, i) ==
    /\ i >= 1
    /\ i + Len(kw) - 1 <= Len(q)
    /\ \A j \in 1..Len(kw) : q[i + j - 1] = kw[j]

\* Python: kw in q
Contains(q, kw) == \E i \in 1..(Len(q) - Len(kw) + 1) : IsSubAt(q, kw, i)

\* Python: q.find(kw) + 1, 0 when absent
Find(q, kw) ==
    IF Contains(q, kw)
    THEN CHOOSE i \in 1..(Len(q) - Len(kw) + 1) :
            /\ IsSubAt(q, kw, i)
            /\ \A j \in 1..(i - 1) : ~IsSubAt(q, kw, j)
    ELSE 0

\* Python: q.replace(old, new, 1)
ReplaceFirst(q, old, new) ==
    LET i == Find(q, old)
    IN  IF i = 0 THEN q
        ELSE SubSeq(q, 1, i - 1) \o new \o SubSeq(q, i + Len(old), Len(q))

RECURSIVE ReplaceAllFrom(_, _, _, _)
ReplaceAllFrom(q, old, new, i) ==
    IF i > Len(q) THEN << >>
    ELSE IF IsSubAt(q, old, i)
         THEN new \o ReplaceAllFrom(q, old, new, i + Len(old))
         ELSE <<q[i]>> \o ReplaceAllFrom(q, old, new, i + 1)

\* Python: q.replace(old, new), old non-empty
ReplaceAll(q, old, new) == ReplaceAllFrom(q, old, new, 1)

Whitespace == {" ", "\n"}

Digits == {"0", "1", "2", "3", "4", "5", "6", "7", "8", "9"}

RECURSIVE LStrip(_)
LStrip(q) ==
    IF q # << >> /\ Head(q) \in Whitespace THEN LStrip(Tail(q)) ELSE q

RECURSIVE RStrip(_)
RStrip(q) ==
    IF q # << >> /\ q[Len(q)] \in Whitespace
    THEN RStrip(SubSeq(q, 1, Len(q) - 1))
    ELSE q

\* Python: q.strip()
Strip(q) == RStrip(LStrip(q))

\* position after the longest run of characters of S that starts at i
RECURSIVE SkipSet(_, _, _)
SkipSet(q, i, S) ==
    IF i <= Len(q) /\ q[i] \in S THEN SkipSet(q, i + 1, S) ELSE i

\* Python: sorted(seq, key=len, reverse=True), a stable sort
RECURSIVE InsertByLen(_, _)
InsertByLen(sorted, x) ==
    IF sorted = << >> THEN <<x>>
    ELSE IF Len(Head(sorted)) >= Len(x)
         THEN <<Head(sorted)>> \o InsertByLen(Tail(sorted), x)
         ELSE <<x>> \o sorted

RECURSIVE SortedByLenDesc(_)
SortedByLenDesc(seq) ==
    IF seq = << >> THEN << >>
    ELSE InsertByLen(SortedByLenDesc(SubSeq(seq, 1, Len(seq) - 1)), seq[Len(seq)])

(***************************************************************************)
(* Configuration tables (rag/config.py) and keyword tables                 *)
(* (rag/retriever.py), romanised.                                          *)
(***************************************************************************)
\* config.py SPECIALTIES: the 26 specialty names, in source order
SPECIALTIES == <<
    <<"nae", "gwa">>,
    <<"oe", "gwa">>,
    <<"so", "a", "cheong", "so", "nyeon", "gwa">>,
    <<"san", "bu", "in", "gwa">>,
    <<"jeong", "sin", "geon", "gang", "ui", "hag", "gwa">>,
    <<"jeong", "hyeong", "oe", "gwa">>,
    <<"sin", "gyeong", "oe", "gwa">>,
    <<"hyung", "bu", "oe", "gwa">>,
    <<"seong", "hyeong", "oe", "gwa">>,
    <<"an", "gwa">>,
    <<"i", "bi", "in", "hu", "gwa">>,
    <<"pi", "bu", "gwa">>,
    <<"bi", "nyo", "gi", "gwa">>,
    <<"yeong", "sang", "ui", "hag", "gwa">>,
    <<"bang", "sa", "seon", "jong", "yang", "hag", "gwa">>,
    <<"ma", "chwi", "tong", "jeung", "ui", "hag", "gwa">>,
    <<"sin", "gyeong", "gwa">>,
    <<"jae", "hwal", "ui", "hag", "gwa">>,
    <<"gyeol", "haeg", "gwa">>,
    <<"jin", "dan", "geom", "sa", "ui", "hag", "gwa">>,
    <<"byeong", "ri", "gwa">>,
    <<"ye", "bang", "ui", "hag", "gwa">>,
    <<"ga", "jeong", "ui", "hag", "gwa">>,
    <<"jig", "eob", "hwan", "gyeong", "ui", "hag", "gwa">>,
    <<"haeg", "ui", "hag", "gwa">>,
    <<"eung", "geub", "ui", "hag", "gwa">>
    >>

\* config.py SPECIALTY_ALIASES: specialty -> aliases, in dict order
SPECIALTY_ALIASES == <<
    [spec |-> <<"byeong", "ri", "gwa">>,
     aliases |-> <<<<"byeong", "ri", "hag", "hoe">>, <<"byeong", "ri", "hag">>, <<"byeong", "ri">>>>],
    [spec |-> <<"i", "bi", "in", "hu", "gwa">>,
     aliases |-> <<<<"i", "bi", "in", "hu", "gwa", "hag", "hoe">>, <<"dae", "han", "i", "bi", "in", "hu", "gwa", "hag", "hoe">>, <<"i", "bi", "in", "hu">>>>]
    >>

\* retriever.py _ATTACHMENT_HINTS
ATTACHMENT_HINTS == <<
    <<"jeom", "su">>,
    <<"gi", "jun">>,
    <<"byeol", "ji">>,
    <<"byeol", "cheom">>,
    <<"cheom", "bu">>,
    <<"yeon", "su", "gyo", "yug">>,
    <<"hag", "sul", "dae", "hoe", " ", "mog", "rog">>
    >>

\* retriever.py cat_keywords: keyword -> category, in dict order
cat_keywords == <<
    [keyword |-> <<"hwan", "ja", "chwi", "geub">>, cat |-> <<"hwan", "ja", "chwi", "geub", "beom", "wi">>],
    [keyword |-> <<"gyo", "gwa", "nae", "yong">>, cat |-> <<"gyo", "gwa", "nae", "yong">>],
    [keyword |-> <<"gyo", "gwa", " ", "nae", "yong">>, cat |-> <<"gyo", "gwa", "nae", "yong">>],
    [keyword |-> <<"hag", "sul", "hoe", "ui">>, cat |-> <<"hag", "sul", "hoe", "ui", "cham", "seog">>],
    [keyword |-> <<"non", "mun">>, cat |-> <<"non", "mun", "je", "chul">>],
    [keyword |-> <<"ta", "gwa", "pa", "gyeon">>, cat |-> <<"ta", "gwa", "pa", "gyeon">>],
    [keyword |-> <<"ta", "gwa", " ", "pa", "gyeon">>, cat |-> <<"ta", "gwa", "pa", "gyeon">>],
    [keyword |-> <<"gi", "ta">>, cat |-> <<"gi", "ta", "yo", "geon">>]
    >>

\* retriever.py _REGULATION_KEYWORDS
REGULATION_KEYWORDS == <<
    <<"su", "ryeon", "gyu", "jeong">>,
    <<"jeon", "mun", "ui", "su", "ryeon", "gyu", "jeong">>,
    <<"jeon", "mun", "ui", "ui", " ", "su", "ryeon">>,
    <<"ja", "gyeog", " ", "in", "jeong">>
    >>

\* retriever.py _QUERY_SYNONYMS: term -> its first synonym, in dict order
QUERY_SYNONYMS == <<
    [term |-> <<"gyo", "gwa", "nae", "yong">>,
     first |-> <<"gyo", "yug", "gwa", "jeong">>],
    [term |-> <<"gyo", "yug", "gwa", "jeong">>,
     first |-> <<"gyo", "gwa", "nae", "yong">>],
    [term |-> <<"su", "ryeon", "nae", "yong">>,
     first |-> <<"gyo", "gwa", "nae", "yong">>],
    [term |-> <<"hwan", "ja", "chwi", "geub", "beom", "wi">>,
     first |-> <<"jin", "ryo", "beom", "wi">>],
    [term |-> <<"hwan", "ja", "chwi", "geub">>,
     first |-> <<"hwan", "ja", "jin", "ryo">>],
    [term |-> <<"hag", "sul", "hoe", "ui", "cham", "seog">>,
     first |-> <<"hag", "sul", "dae", "hoe", " ", "cham", "seog">>],
    [term |-> <<"hag", "sul", "hoe", "ui">>,
     first |-> <<"hag", "sul", "dae", "hoe">>],
    [term |-> <<"non", "mun", "je", "chul">>,
     first |-> <<"non", "mun", " ", "bal", "pyo">>],
    [term |-> <<"ta", "gwa", "pa", "gyeon">>,
     first |-> <<"ta", "gwa", " ", "sun", "hwan">>],
    [term |-> <<"gi", "ta", "yo", "geon">>,
     first |-> <<"chu", "ga", "yo", "geon">>],
    [term |-> <<"gyo", "gwa", "gwa", "jeong">>,
     first |-> <<"gyo", "yug", "gwa", "jeong">>],
    [term |-> <<"su", "ryeon">>,
     first |-> <<"gyo", "yug">>],
    [term |-> <<"mog", "pyo">>,
     first |-> <<"gyo", "yug", "mog", "pyo">>],
    [term |-> <<"nyeon", "cha">>,
     first |-> <<"yeon", "cha">>],
    [term |-> <<"yeon", "cha">>,
     first |-> <<"nyeon", "cha">>],
    [term |-> <<"su", "ryeon", "gyu", "jeong">>,
     first |-> <<"jeon", "mun", "ui", "su", "ryeon", "gyu", "jeong">>],
    [term |-> <<"jeon", "mun", "ui", "su", "ryeon", "gyu", "jeong">>,
     first |-> <<"su", "ryeon", "gyu", "jeong">>],
    [term |-> <<"su", "ryeon", "byeong", "won">>,
     first |-> <<"su", "ryeon", "gi", "gwan">>],
    [term |-> <<"su", "ryeon", "gi", "gwan">>,
     first |-> <<"su", "ryeon", "byeong", "won">>],
    [term |-> <<"jeon", "gong", "ui">>,
     first |-> <<"re", "ji", "deon", "teu">>]
    >>

\* retriever.py _REFORMULATIONS: (pattern, replacement), in list order
REFORMULATIONS == <<
    [pattern |-> <<"al", "ryeo", "jwo">>,
     replacement |-> <<"gwan", "ryeon", " ", "nae", "yong">>],
    [pattern |-> <<"al", "ryeo", "ju", "se", "yo">>,
     replacement |-> <<"gwan", "ryeon", " ", "nae", "yong">>],
    [pattern |-> <<"eo", "tteoh", "ge", " ", "doe", "na", "yo", "?">>,
     replacement |-> <<"gwan", "ryeon", " ", "nae", "yong">>],
    [pattern |-> <<"mu", "eos", "in", "ga", "yo", "?">>,
     replacement |-> <<"gwan", "ryeon", " ", "nae", "yong">>],
    [pattern |-> <<"mwo", "ya", "?">>,
     replacement |-> <<"gwan", "ryeon", " ", "nae", "yong">>],
    [pattern |-> <<"mwo", "ya">>,
     replacement |-> <<"gwan", "ryeon", " ", "nae", "yong">>],
    [pattern |-> <<"eun", "?">>,
     replacement |-> <<" ", "gwan", "ryeon", " ", "nae", "yong">>],
    [pattern |-> <<"neun", "?">>,
     replacement |-> <<" ", "gwan", "ryeon", " ", "nae", "yong">>],
    [pattern |-> <<"i", "?">>,
     replacement |-> <<" ", "gwan", "ryeon", " ", "nae", "yong">>]
    >>

\* metadata values and keywords used by the filter rules
DOC_ATTACHMENT == <<"cheom", "bu">>

DOC_REGULATION == <<"jeon", "mun", "ui", "su", "ryeon", "gyu", "jeong">>

DOC_ADDENDUM == <<"bu", "chig">>

DOC_GENERAL_RULE == <<"chong", "chig">>

DOC_INTERN == <<"in", "teon", "su", "ryeon">>

DOC_EDU_GOAL == <<"gyo", "yug", "mog", "pyo">>

DOC_YEARLY == <<"yeon", "cha", "byeol", "_", "gyo", "gwa", "gwa", "jeong">>

KW_INTERN == <<"in", "teon">>

KW_REGULATION == <<"gyu", "jeong">>

CAT_BODY == <<"bon", "mun">>

CAT_ADDENDUM == <<"bu", "chig">>

CAT_ALL == <<"jeon", "che">>

YEAR_TOTAL == <<"chong", "gye">>

YEAR_NOTE == <<"bi", "go">>

NumericYears == {<<"1">>, <<"2">>, <<"3">>, <<"4">>}

(***************************************************************************)
(* Filters.  A predicate is [key, value]; a where-filter is None, a bare   *)
(* predicate or {"$and": [...]}: form "none" | "single" | "and".           *)
(***************************************************************************)
Pred(k, v) == [key |-> k, value |-> v]

NoFilter == [form |-> "none", conds |-> << >>]

SingleFilter(p) == [form |-> "single", conds |-> <<p>>]

AndFilter(ps) == [form |-> "and", conds |-> ps]

\* the list the source iterates: where_filter["$and"] or [where_filter]
FilterConds(where_filter) == where_filter.conds

HasKey(filters, k) == \E i \in DOMAIN filters : filters[i].key = k

HasPred(filters, k, v) ==
    \E i \in DOMAIN filters : filters[i].key = k /\ filters[i].value = v

MinOf(S) == CHOOSE x \in S : \A y \in S : x <= y

\* any(kw in question for kw in kws)
AnyIn(question, kws) == \E i \in DOMAIN kws : Contains(question, kws[i])

(***************************************************************************)
(* Regular expressions of the source.  A run of blanks or of digits is     *)
(* always followed by a character outside the run's class, so the longest  *)
(* run is the only candidate.                                              *)
(***************************************************************************)
\* r"(\d)\s*[nyeon|yeon]\s*cha" matches at i
YearMatchAt(q, i) ==
    /\ i <= Len(q)
    /\ q[i] \in Digits
    /\ LET j == SkipSet(q, i + 1, Whitespace)
       IN  /\ j <= Len(q)
           /\ q[j] \in {"nyeon", "yeon"}
           /\ LET k == SkipSet(q, j + 1, Whitespace)
              IN  k <= Len(q) /\ q[k] = "cha"

YearPattern(q) == \E i \in 1..Len(q) : YearMatchAt(q, i)

\* m.group(1) of the leftmost match
YearGroup(q) == <<q[MinOf({i \in 1..Len(q) : YearMatchAt(q, i)})]>>

\* r"je\s*(\d+)\s*<closer>" matches at i
NumberedMatchAt(q, i, closer) ==
    /\ i <= Len(q)
    /\ q[i] = "je"
    /\ LET j == SkipSet(q, i + 1, Whitespace)
           k == SkipSet(q, j, Digits)
       IN  /\ k > j
           /\ LET l == SkipSet(q, k, Whitespace)
              IN  l <= Len(q) /\ q[l] = closer

NumberedPattern(q, closer) == \E i \in 1..Len(q) : NumberedMatchAt(q, i, closer)

\* m.group(1) of the leftmost match: the digits
NumberedGroup(q, closer) ==
    LET i == MinOf({x \in 1..Len(q) : NumberedMatchAt(q, x, closer)})
        j == SkipSet(q, i + 1, Whitespace)
        k == SkipSet(q, j, Digits)
    IN  SubSeq(q, j, k - 1)

\* r"je\s*\d+\s*jo"
ArticlePattern(q) == NumberedPattern(q, "jo")

\* r"bu chig\s*je\d+ho" matches at i
AddendumDecreeMatchAt(q, i) ==
    /\ IsSubAt(q, DOC_ADDENDUM, i)
    /\ LET j == SkipSet(q, i + 2, Whitespace)
       IN  /\ j <= Len(q)
           /\ q[j] = "je"
           /\ LET k == SkipSet(q, j + 1, Digits)
              IN  k > j + 1 /\ k <= Len(q) /\ q[k] = "ho"

AddendumDecreePattern(q) == \E i \in 1..Len(q) : AddendumDecreeMatchAt(q, i)

(***************************************************************************)
(* extract_query_filters                                                   *)
(***************************************************************************)
\* the loop over sorted(SPECIALTIES, key=len, reverse=True): first match
SortedSpecialties == SortedByLenDesc(SPECIALTIES)

\* a loop over SPECIALTIES in the order of config.py
specialty_in_source_order(question) ==
    LET hits == {i \in DOMAIN SPECIALTIES : Contains(question, SPECIALTIES[i])}
    IN  IF hits = {} THEN << >>
        ELSE <<Pred("specialty", SPECIALTIES[MinOf(hits)])>>

SpecialtyByName(question) ==
    LET names == SortedSpecialties
        hits == {i \in DOMAIN names : Contains(question, names[i])}
    IN  IF hits = {} THEN << >>
        ELSE <<Pred("specialty", names[MinOf(hits)])>>

\* the alias loop: the first specialty one of whose aliases occurs
SpecialtyByAlias(question) ==
    LET hits == {i \in DOMAIN SPECIALTY_ALIASES :
                    AnyIn(question, SortedByLenDesc(SPECIALTY_ALIASES[i].aliases))}
    IN  IF hits = {} THEN << >>
        ELSE <<Pred("specialty", SPECIALTY_ALIASES[MinOf(hits)].spec)>>

SpecialtyFilters(question) ==
    LET byName == SpecialtyByName(question)
    IN  IF HasKey(byName, "specialty") THEN byName ELSE SpecialtyByAlias(question)

YearFilters(question) ==
    (IF YearPattern(question) THEN <<Pred("year", YearGroup(question))>> ELSE << >>)
    \o (IF Contains(question, YEAR_TOTAL) THEN <<Pred("year", YEAR_TOTAL)>> ELSE << >>)
    \o (IF Contains(question, YEAR_NOTE) THEN <<Pred("year", YEAR_NOTE)>> ELSE << >>)

CategoryFilters(question) ==
    LET hits == {i \in DOMAIN cat_keywords : Contains(question, cat_keywords[i].keyword)}
    IN  IF hits = {} THEN << >>
        ELSE <<Pred("category", cat_keywords[MinOf(hits)].cat)>>

\* is_regulation of extract_query_filters, given the filters so far
IsRegulationQuestion(question, filters) ==
    \/ AnyIn(question, REGULATION_KEYWORDS)
    \/ ArticlePattern(question) /\ ~HasKey(filters, "specialty")
    \/ Contains(question, KW_REGULATION) /\ ~HasKey(filters, "specialty")
    \/ AddendumDecreePattern(question)

RegulationFilters(question, filters) ==
    IF IsRegulationQuestion(question, filters)
    THEN <<Pred("doc_type", DOC_REGULATION)>>
         \o (IF Contains(question, DOC_ADDENDUM) THEN <<Pred("category", CAT_ADDENDUM)>>
             ELSE IF ArticlePattern(question) THEN <<Pred("category", CAT_BODY)>>
             ELSE << >>)
    ELSE << >>

\* the if/elif chain of lines 98-106
GeneralDocFilters(question, filters) ==
    LET has_regulation == HasPred(filters, "doc_type", DOC_REGULATION)
    IN  IF ~has_regulation /\ Contains(question, DOC_ADDENDUM)
        THEN <<Pred("doc_type", DOC_ADDENDUM)>>
        ELSE IF Contains(question, DOC_GENERAL_RULE) THEN <<Pred("doc_type", DOC_GENERAL_RULE)>>
        ELSE IF Contains(question, KW_INTERN) THEN <<Pred("doc_type", DOC_INTERN)>>
        ELSE IF Contains(question, DOC_EDU_GOAL) THEN <<Pred("doc_type", DOC_EDU_GOAL)>>
        ELSE << >>

\* the filters list at line 108
InferredFilters(question) ==
    LET f1 == SpecialtyFilters(question)
        f2 == f1 \o YearFilters(question)
        f3 == f2 \o CategoryFilters(question)
        f4 == f3 \o RegulationFilters(question, f3)
    IN  f4 \o GeneralDocFilters(question, f4)

\* a filter that adds the attachment predicate to the predicates of all rules
filters_with_attachment_added(question) ==
    LET needs_attachment == AnyIn(question, ATTACHMENT_HINTS)
        filters == InferredFilters(question)
                   \o (IF needs_attachment THEN <<Pred("doc_type", DOC_ATTACHMENT)>> ELSE << >>)
    IN  IF filters = << >> THEN NoFilter
        ELSE IF Len(filters) = 1 THEN SingleFilter(filters[1])
        ELSE AndFilter(filters)

extract_query_filters(question) ==
    LET needs_attachment == AnyIn(question, ATTACHMENT_HINTS)
        spec == SpecialtyFilters(question)
        filters == InferredFilters(question)
    IN  IF needs_attachment
        THEN IF spec = << >> THEN SingleFilter(Pred("doc_type", DOC_ATTACHMENT))
             ELSE AndFilter(spec \o <<Pred("doc_type", DOC_ATTACHMENT)>>)
        ELSE IF filters = << >> THEN NoFilter
        ELSE IF Len(filters) = 1 THEN SingleFilter(filters[1])
        ELSE AndFilter(filters)

(***************************************************************************)
(* _generate_query_variations                                              *)
(***************************************************************************)
SynTerms == SortedByLenDesc([i \in DOMAIN QUERY_SYNONYMS |-> QUERY_SYNONYMS[i].term])

SynFirst(term) ==
    QUERY_SYNONYMS[CHOOSE i \in DOMAIN QUERY_SYNONYMS : QUERY_SYNONYMS[i].term = term].first

\* indexes into SynTerms of the terms that occur in the question
SynHits(question) == {i \in DOMAIN SynTerms : Contains(question, SynTerms[i])}

\* variation 1: replace the first occurrence of the first matching term
syn_variation(question) ==
    IF SynHits(question) = {} THEN question
    ELSE LET term == SynTerms[MinOf(SynHits(question))]
         IN  ReplaceFirst(question, term, SynFirst(term))

\* variation 2: the first pattern that occurs, every occurrence replaced, stripped
reformulated(question) ==
    LET hits == {i \in DOMAIN REFORMULATIONS : Contains(question, REFORMULATIONS[i].pattern)}
    IN  IF hits = {} THEN question
        ELSE LET r == REFORMULATIONS[MinOf(hits)]
             IN  Strip(ReplaceAll(question, r.pattern, r.replacement))

\* the second matching term replaced, the first skipped
syn2(question) ==
    LET hits == SynHits(question)
    IN  IF Cardinality(hits) < 2 THEN question
        ELSE LET term == SynTerms[MinOf(hits \ {MinOf(hits)})]
             IN  ReplaceFirst(question, term, SynFirst(term))

InSeq(x, seq) == \E i \in DOMAIN seq : seq[i] = x

\* variations appended without the comparison with the question
variations_without_checks(question, n) ==
    LET v3 == <<syn_variation(question), reformulated(question)>>
              \o (IF n > 2 THEN <<syn2(question)>> ELSE << >>)
    IN  SubSeq(v3, 1, Min(n, Len(v3)))

generate_query_variations(question, n) ==
    LET v1 == IF syn_variation(question) # question THEN <<syn_variation(question)>> ELSE << >>
        v2 == IF reformulated(question) # question /\ ~InSeq(reformulated(question), v1)
              THEN v1 \o <<reformulated(question)>> ELSE v1
        v3 == IF Len(v2) < n /\ syn2(question) # question /\ ~InSeq(syn2(question), v2)
              THEN v2 \o <<syn2(question)>> ELSE v2
    IN  SubSeq(v3, 1, Min(n, Len(v3)))

(***************************************************************************)
(* Chunks (rag/chunker.py).  A chunk is [id, text, metadata]; metadata     *)
(* keeps the four keys the retriever reads.                                *)
(***************************************************************************)
Meta(dt, sp, yr, cat) == [doc_type |-> dt, specialty |-> sp, year |-> yr, category |-> cat]

Chunk(id, text, md) == [id |-> id, text |-> text, metadata |-> md]

\* a (year, category) chunk of chunk_curriculum_table
YearCategoryChunk(specialty, year, cat, content) ==
    LET header == IF year \in {YEAR_TOTAL, YEAR_NOTE}
                  THEN IF cat # << >>
                       THEN <<"[">> \o specialty \o <<"]", " ">> \o year \o <<" ", "-", " ">> \o cat \o <<":">>
                       ELSE <<"[">> \o specialty \o <<"]", " ">> \o year \o <<":">>
                  ELSE <<"[">> \o specialty \o <<"]", " ">> \o year
                       \o <<"nyeon", "cha", " ", "-", " ">> \o cat \o <<":">>
    IN  Chunk(specialty \o <<"_">> \o year \o <<"_">> \o cat,
              header \o <<"\n">> \o content,
              Meta(DOC_YEARLY, specialty, year, cat))

\* an attachment chunk of generate_all_chunks; stem is fname without ".md"
AttachmentChunk(specialty, stem, body) ==
    Chunk(specialty \o <<"_">> \o DOC_ATTACHMENT \o <<"_">> \o stem \o <<".", "m", "d">>,
          <<"[">> \o specialty \o <<"]", " ", "byeol", "ji", "(", "cheom", "bu", "ja", "ryo", ")", " ", "-", " ">>
              \o stem \o <<":", "\n">> \o body,
          Meta(DOC_ATTACHMENT, specialty, << >>, << >>))

\* chunk_general_document
GeneralChunk(doc_type, body) ==
    Chunk(doc_type, <<"[">> \o doc_type \o <<"]", "\n">> \o body,
          Meta(doc_type, << >>, << >>, << >>))

\* a regulation article: the id the direct lookup of retrieve builds, the
\* doc_type and category its filters and ordering read; a document-level
\* chunk, so year and specialty are empty
RegulationArticleChunk(number, body) ==
    Chunk(DOC_REGULATION \o <<"_", "je">> \o number \o <<"jo">>, body,
          Meta(DOC_REGULATION, << >>, << >>, CAT_BODY))

\* a regulation addendum decree
RegulationDecreeChunk(number, body) ==
    Chunk(DOC_REGULATION \o <<"_">> \o DOC_ADDENDUM \o <<"_", "je">> \o number \o <<"ho">>, body,
          Meta(DOC_REGULATION, << >>, << >>, CAT_ADDENDUM))

(***************************************************************************)
(* Lexical index (rag/bm25_index.py).                                      *)
(***************************************************************************)
\* characters that are not \w
NonWordChars == {" ", "\n", "?", "[", "]", "-", ":", ".", ",", "<", ">", "(", ")"}

\* str.lower() on the alphabet of the model: "X" and "Y" are its capitals
Lower(c) == IF c = "X" THEN "x" ELSE IF c = "Y" THEN "y" ELSE c

RECURSIVE TokenizeFrom(_, _, _)
TokenizeFrom(text, i, cur) ==
    IF i > Len(text) THEN (IF cur = << >> THEN << >> ELSE <<cur>>)
    ELSE IF text[i] \in NonWordChars
         THEN (IF cur = << >> THEN << >> ELSE <<cur>>) \o TokenizeFrom(text, i + 1, << >>)
         ELSE TokenizeFrom(text, i + 1, Append(cur, Lower(text[i])))

\* _tokenize: re.findall(r"\w+", text.lower())
Tokenize(text) == TokenizeFrom(text, 1, << >>)

\* _match_filter: every predicate of the filter holds of the metadata
match_filter(metadata, where_filter) ==
    \A i \in DOMAIN where_filter.conds :
        metadata[where_filter.conds[i].key] = where_filter.conds[i].value

\* Python truthiness of where_filter: None is false, a dict with a key is true
Truthy(where_filter) == where_filter.form # "none"

Count(seq, x) == Cardinality({i \in DOMAIN seq : seq[i] = x})

RECURSIVE SumOver(_, _)
SumOver(f, S) ==
    IF S = {} THEN 0
    ELSE LET x == CHOOSE y \in S : TRUE IN f[x] + SumOver(f, S \ {x})

Sign(n) == IF n > 0 THEN 1 ELSE IF n < 0 THEN -1 ELSE 0

(***************************************************************************)
(* BM25Okapi of the rank_bm25 library, in integers.  The library scores a  *)
(* document as the sum over the query tokens of idf(token) times a         *)
(* saturating function of the token's frequency in the document, which is  *)
(* zero exactly when the token is absent.  idf is log(N-n+0.5) -           *)
(* log(n+0.5): positive, zero or negative as N - 2n is; a negative idf is  *)
(* replaced by 0.25 times the average idf.  The model keeps the signs: the *)
(* weight is 4(N-2n) when that is not negative and the sign of the summed  *)
(* N-2n otherwise, and the frequency stands for its saturated value.       *)
(***************************************************************************)
CorpusTerms(corpus) == UNION {{corpus[i][j] : j \in DOMAIN corpus[i]} : i \in DOMAIN corpus}

DocFreq(corpus, t) == Cardinality({i \in DOMAIN corpus : Count(corpus[i], t) > 0})

RawIdf(corpus, t) == Len(corpus) - 2 * DocFreq(corpus, t)

Idf(corpus, t) ==
    IF DocFreq(corpus, t) = 0 THEN 0
    ELSE IF RawIdf(corpus, t) >= 0 THEN 4 * RawIdf(corpus, t)
    ELSE Sign(SumOver([u \in CorpusTerms(corpus) |-> RawIdf(corpus, u)], CorpusTerms(corpus)))

\* bm25.get_scores(tokenized_query)[idx]
RECURSIVE ScoreFrom(_, _, _, _)
ScoreFrom(corpus, idx, query, j) ==
    IF j > Len(query) THEN 0
    ELSE Idf(corpus, query[j]) * Count(corpus[idx], query[j])
         + ScoreFrom(corpus, idx, query, j + 1)

get_scores(corpus, idx, query) == ScoreFrom(corpus, idx, query, 1)

\* Python: sorted(seq, key=...), a stable sort: an element comes after the
\* elements with a smaller key and the earlier elements with an equal key.
\* Lt(a, b): the key of a is smaller than the key of b.
StableSortBy(seq, Lt(_, _)) ==
    LET pos(i) == 1 + Cardinality({j \in DOMAIN seq :
                        \/ Lt(seq[j], seq[i])
                        \/ ~Lt(seq[i], seq[j]) /\ j < i})
    IN  [p \in DOMAIN seq |-> seq[CHOOSE i \in DOMAIN seq : pos(i) = p]]

KeyLt(a, b) == a.k < b.k

\* Python: seq[:n]
Take(seq, n) == SubSeq(seq, 1, Min(n, Len(seq)))

\* Python: [x for x in seq if P(x)]
RECURSIVE SelectIdx(_, _, _)
SelectIdx(n, keep, i) ==
    IF i > n THEN << >>
    ELSE (IF i \in keep THEN <<i>> ELSE << >>) \o SelectIdx(n, keep, i + 1)

\* a distance or a bm25_score key that the item does not have
Absent == -1

\* An index instance: the fields of BM25Index.  bm25 is None until build or
\* load has constructed the ranking model.
NewBM25Index ==
    [doc_ids |-> << >>, doc_texts |-> << >>, doc_metadatas |-> << >>,
     tokenized_corpus |-> << >>, bm25 |-> [built |-> FALSE, corpus |-> << >>]]

BM25Okapi(tokenized_corpus) == [built |-> TRUE, corpus |-> tokenized_corpus]

\* a candidates loop that keeps the scores that are not negative
bm25_candidates_nonnegative(self, tokenized_query, where_filter) ==
    {idx \in DOMAIN self.bm25.corpus :
        /\ get_scores(self.bm25.corpus, idx, tokenized_query) >= 0
        /\ (Truthy(where_filter) => match_filter(self.doc_metadatas[idx], where_filter))}

\* the candidates loop of BM25Index.query: the indexes kept
bm25_candidates(self, tokenized_query, where_filter) ==
    {idx \in DOMAIN self.bm25.corpus :
        /\ get_scores(self.bm25.corpus, idx, tokenized_query) > 0
        /\ (Truthy(where_filter) => match_filter(self.doc_metadatas[idx], where_filter))}

\* BM25Index.query
bm25_query(self, question, top_k, where_filter) ==
    IF ~self.bm25.built THEN << >>
    ELSE IF Tokenize(question) = << >> THEN << >>
    ELSE LET tq == Tokenize(question)
             keep == bm25_candidates(self, tq, where_filter)
             idxs == SelectIdx(Len(self.bm25.corpus), keep, 1)
             cands == [i \in DOMAIN idxs |->
                          [k |-> 0 - get_scores(self.bm25.corpus, idxs[i], tq), idx |-> idxs[i]]]
             top == Take(StableSortBy(cands, KeyLt), top_k)
         IN  [i \in DOMAIN top |->
                 [id |-> self.doc_ids[top[i].idx],
                  text |-> self.doc_texts[top[i].idx],
                  metadata |-> self.doc_metadatas[top[i].idx],
                  distance |-> Absent,
                  bm25_score |-> 0 - top[i].k]]

\* BM25Index.build, all five assignments
bm25_build(chunks) ==
    [doc_ids |-> [i \in DOMAIN chunks |-> chunks[i].id],
     doc_texts |-> [i \in DOMAIN chunks |-> chunks[i].text],
     doc_metadatas |-> [i \in DOMAIN chunks |-> chunks[i].metadata],
     tokenized_corpus |-> [i \in DOMAIN chunks |-> Tokenize(chunks[i].text)],
     bm25 |-> BM25Okapi([i \in DOMAIN chunks |-> Tokenize(chunks[i].text)])]

(***************************************************************************)
(* Configuration constants (rag/config.py).  Distances are in tenths.      *)
(***************************************************************************)
MULTI_QUERY_COUNT == 3

RRF_K == 60

BM25_WEIGHT == 1

VECTOR_WEIGHT == 1

BM25_TOP_K_MULTIPLIER == 2

\* the acceptance threshold 1.5 of attachment completion, in tenths
ATTACHMENT_MAX_DISTANCE == 15

\* n_results of the supplementary attachment query
ATTACHMENT_TOP_K == 2

\* the default rank of a regulation id without digits, and of an unknown year
NO_NUMBER_RANK == 999

NO_YEAR_RANK == 99

(***************************************************************************)
(* Bounds and inputs of the model.                                         *)
(***************************************************************************)
MaxTopK == 2

NumEmbeddings == 2

\* the corpus the indexes of the retrieval model are built from
Corpus == <<
    YearCategoryChunk(<<"nae", "gwa">>, <<"1">>, <<"gyo", "gwa", "nae", "yong">>, <<"su", "sul">>),
    YearCategoryChunk(<<"nae", "gwa">>, <<"2">>, <<"gyo", "gwa", "nae", "yong">>, <<"jin", "ryo">>),
    YearCategoryChunk(<<"nae", "gwa">>, YEAR_TOTAL, <<"gyo", "gwa", "nae", "yong">>, <<"su", "sul">>),
    YearCategoryChunk(<<"nae", "gwa">>, YEAR_NOTE, << >>, <<"gyo", "gwa", "nae", "yong">>),
    AttachmentChunk(<<"nae", "gwa">>, <<"byeol", "ji", "1">>, <<"jeom", "su">>),
    RegulationArticleChunk(<<"3">>, <<"je", "3", "jo", " ", "su", "ryeon">>),
    RegulationDecreeChunk(<<"5">>, <<"bu", "chig", " ", "je", "5", "ho">>),
    GeneralChunk(DOC_GENERAL_RULE, <<"chong", "chig", " ", "su", "ryeon">>)
    >>

SeqToSet(seq) == {seq[i] : i \in DOMAIN seq}

\* the contents the vector store may hold when a question arrives
Collections == {
    {},
    SeqToSet(Corpus),
    SeqToSet(SubSeq(Corpus, 3, 7))
    }

\* the snapshot file of the lexical index: absent, or pickled from a corpus
\* BM25Index.save: the four lists pickled
pickled(self) ==
    [doc_ids |-> self.doc_ids, doc_texts |-> self.doc_texts,
     doc_metadatas |-> self.doc_metadatas, tokenized_corpus |-> self.tokenized_corpus]

NoSnapshot == [exists |-> FALSE, data |-> pickled(NewBM25Index)]

SnapshotOf(chunks) == [exists |-> TRUE, data |-> pickled(bm25_build(chunks))]

Snapshots == {NoSnapshot, SnapshotOf(Corpus), SnapshotOf(SubSeq(Corpus, 2, 5))}

\* questions put to retrieve
Questions == {
    <<"nae", "gwa">>,
    <<"nae", "gwa", " ", "2", "nyeon", "cha", " ", "gyo", "gwa", "nae", "yong">>,
    <<"nae", "gwa", " ", "1", "nyeon", "cha", " ", "gyo", "gwa", "nae", "yong", "eun", "?">>,
    <<"2", "nyeon", "cha", " ", "chong", "gye">>,
    <<"su", "sul">>,
    <<"nae", "gwa", " ", "bi", "go">>,
    <<"nae", "gwa", " ", "jeom", "su">>,
    <<"je", "3", "jo">>,
    <<"je", "3", "jo", " ", "2", "nyeon", "cha">>,
    <<"je", "4", "jo">>,
    <<"bu", "chig", " ", "je", "5", "ho">>,
    <<"bu", "chig", " ", "je", "5", "ho", " ", "1", "nyeon", "cha">>,
    <<"su", "ryeon", "gyu", "jeong">>,
    <<"chong", "chig">>,
    <<"nae", "gwa", " ", "su", "ryeon", " ", "mog", "pyo">>,
    <<"?">>
    }

\* how the vector store answers: every call succeeds, any call may raise,
\* or every call raises (the store is unreachable)
Modes == {"up", "flaky", "down"}

\* whether one call of the store raises
CallRaises(m) == IF m = "up" THEN {FALSE} ELSE IF m = "down" THEN {TRUE} ELSE {FALSE, TRUE}

(***************************************************************************)
(* The vector store (chromadb collection), as the retriever sees it.  The  *)
(* embedding is opaque: emb selects one of NumEmbeddings distance tables.  *)
(***************************************************************************)
Ordinal(id) == CHOOSE i \in DOMAIN Corpus : Corpus[i].id = id

\* the cosine distance of a chunk to a query text, in tenths: 0..20
Distance(e, text, id) == ((Len(text) + 2 * e) * Ordinal(id) + 3 * e + 5 * Ordinal(id)) % 21

\* nearer first; the store returns no two entries at once, ties by ordinal
NearLt(a, b) == a.distance * 100 + Ordinal(a.id) < b.distance * 100 + Ordinal(b.id)

RECURSIVE SetToSeq(_)
SetToSeq(S) ==
    IF S = {} THEN << >>
    ELSE LET x == CHOOSE y \in S : TRUE IN <<x>> \o SetToSeq(S \ {x})

\* collection.query(query_texts=[text], n_results=n, where=where_filter)
col_query(coll, e, text, n, where_filter) ==
    LET hits == {c \in coll : Truthy(where_filter) => match_filter(c.metadata, where_filter)}
        found == {[id |-> c.id, text |-> c.text, metadata |-> c.metadata,
                   distance |-> Distance(e, text, c.id), bm25_score |-> Absent] : c \in hits}
    IN  Take(StableSortBy(SetToSeq(found), NearLt), n)

\* collection.get(ids=[id]): the documents found
col_get(coll, id) == {c \in coll : c.id = id}

(***************************************************************************)
(* _query: one call with the filter; if it raises, one call without.       *)
(* raise1, raise2: whether the first and the second call raise.            *)
(***************************************************************************)
\* a _query that swallows the exception of the second call
query_swallows(raise1, raise2) == FALSE

\* _query lets the exception of the second call out
query_raises(raise1, raise2) == raise1 /\ raise2

query_items(coll, e, text, n, where_filter, raise1) ==
    IF ~raise1 THEN col_query(coll, e, text, n, where_filter)
    ELSE col_query(coll, e, text, n, NoFilter)

\* the outcome of _query: raised, or the items returned
query(coll, e, text, n, where_filter, raise1, raise2) ==
    IF query_raises(raise1, raise2)
    THEN [done |-> TRUE, raised |-> TRUE, failed |-> TRUE, items |-> << >>]
    ELSE [done |-> TRUE, raised |-> FALSE, failed |-> raise1,
          items |-> query_items(coll, e, text, n, where_filter, raise1)]

(***************************************************************************)
(* _multi_query: the merge of the variants' results.                       *)
(***************************************************************************)
RECURSIVE Flatten(_)
Flatten(seqs) == IF seqs = << >> THEN << >> ELSE Head(seqs) \o Flatten(Tail(seqs))

IdsOf(its) == [i \in DOMAIN its |-> its[i].id]

\* best[doc_id] = item when doc_id is new or the distance is smaller; the
\* dict keeps the position of the first insertion
RECURSIVE BestOf(_, _)
BestOf(best, its) ==
    IF its = << >> THEN best
    ELSE LET item == Head(its)
             at == {i \in DOMAIN best : best[i].id = item.id}
         IN  IF at = {} THEN BestOf(Append(best, item), Tail(its))
             ELSE LET i == CHOOSE j \in at : TRUE
                  IN  IF item.distance < best[i].distance
                      THEN BestOf([best EXCEPT ![i] = item], Tail(its))
                      ELSE BestOf(best, Tail(its))

DistanceLt(a, b) == a.distance < b.distance

\* a merge that keeps the distance of the last occurrence of an id
RECURSIVE LastOf(_, _)
LastOf(best, its) ==
    IF its = << >> THEN best
    ELSE LET item == Head(its)
             at == {i \in DOMAIN best : best[i].id = item.id}
         IN  IF at = {} THEN LastOf(Append(best, item), Tail(its))
             ELSE LastOf([best EXCEPT ![CHOOSE j \in at : TRUE] = item], Tail(its))

merge_last_seen(all_results, top_k) ==
    Take(StableSortBy(LastOf(<< >>, Flatten(all_results)), DistanceLt), top_k)

\* lines 236-245: dedupe by id keeping the least distance, sort, truncate
merge_results(all_results, top_k) ==
    Take(StableSortBy(BestOf(<< >>, Flatten(all_results)), DistanceLt), top_k)

(***************************************************************************)
(* _reciprocal_rank_fusion.  Scores are exact fractions [n, d].            *)
(***************************************************************************)
RECURSIVE Gcd(_, _)
Gcd(a, b) == IF b = 0 THEN a ELSE Gcd(b, a % b)

Frac(n, d) == [n |-> n \div Gcd(n, d), d |-> d \div Gcd(n, d)]

FracAdd(x, y) == Frac(x.n * y.d + y.n * x.d, x.d * y.d)

FracLt(x, y) == x.n * y.d < y.n * x.d

Zero == [n |-> 0, d |-> 1]

\* the sum a list adds to the score of doc_id: weight / (RRF_K + rank) for
\* each position rank that holds doc_id
RECURSIVE ListScore(_, _, _, _)
ListScore(results, doc_id, weight, rank) ==
    IF rank > Len(results) THEN Zero
    ELSE FracAdd(IF results[rank].id = doc_id THEN Frac(weight, RRF_K + rank) ELSE Zero,
                 ListScore(results, doc_id, weight, rank + 1))

\* a score that leaves the lexical list out
rrf_score_vector_only(vector_results, bm25_results, doc_id) ==
    ListScore(vector_results, doc_id, VECTOR_WEIGHT, 1)

rrf_score(vector_results, bm25_results, doc_id) ==
    FracAdd(ListScore(vector_results, doc_id, VECTOR_WEIGHT, 1),
            ListScore(bm25_results, doc_id, BM25_WEIGHT, 1))

\* the keys of a dict filled from a list: the first occurrences, in order
RECURSIVE FirstSeen(_, _)
FirstSeen(seen, its) ==
    IF its = << >> THEN seen
    ELSE IF \E i \in DOMAIN seen : seen[i].id = Head(its).id
         THEN FirstSeen(seen, Tail(its))
         ELSE FirstSeen(Append(seen, Head(its)), Tail(its))

\* the item copied into the result: bm25_score and distance popped
Stripped(item) == [item EXCEPT !.distance = Absent, !.bm25_score = Absent]

\* a fusion that sorts by ascending score
rrf_ascending(vector_results, bm25_results, top_k) ==
    LET doc_map == FirstSeen(<< >>, vector_results \o bm25_results)
        scored == [i \in DOMAIN doc_map |->
                      [item |-> doc_map[i],
                       score |-> rrf_score(vector_results, bm25_results, doc_map[i].id)]]
        ScoreLt(a, b) == FracLt(a.score, b.score)
        top == Take(StableSortBy(scored, ScoreLt), top_k)
    IN  [i \in DOMAIN top |-> Stripped(top[i].item)]

reciprocal_rank_fusion(vector_results, bm25_results, top_k) ==
    LET doc_map == FirstSeen(<< >>, vector_results \o bm25_results)
        scored == [i \in DOMAIN doc_map |->
                      [item |-> doc_map[i],
                       score |-> rrf_score(vector_results, bm25_results, doc_map[i].id)]]
        ScoreGt(a, b) == FracLt(b.score, a.score)
        sorted_ids == StableSortBy(scored, ScoreGt)
        top == Take(sorted_ids, top_k)
    IN  [i \in DOMAIN top |-> Stripped(top[i].item)]

(***************************************************************************)
(* retrieve: the pieces of its body.                                       *)
(***************************************************************************)
\* is_regulation, line 306
is_regulation(where_filter) ==
    Truthy(where_filter) /\ HasPred(FilterConds(where_filter), "doc_type", DOC_REGULATION)

\* has_year, line 371
has_year(where_filter) ==
    /\ Truthy(where_filter)
    /\ \E i \in DOMAIN FilterConds(where_filter) :
          /\ FilterConds(where_filter)[i].key = "year"
          /\ FilterConds(where_filter)[i].value \in NumericYears

\* a lookup that takes the article of any question
lookup_any_article(question, where_filter) ==
    IF ~is_regulation(where_filter) THEN << >>
    ELSE IF Contains(question, DOC_ADDENDUM) /\ NumberedPattern(question, "ho")
    THEN DOC_REGULATION \o <<"_">> \o DOC_ADDENDUM \o <<"_", "je">>
         \o NumberedGroup(question, "ho") \o <<"ho">>
    ELSE IF NumberedPattern(question, "jo")
    THEN DOC_REGULATION \o <<"_", "je">> \o NumberedGroup(question, "jo") \o <<"jo">>
    ELSE << >>

\* the id of the direct lookup, << >> when retrieve attempts none
lookup_target(question, where_filter) ==
    IF ~is_regulation(where_filter) THEN << >>
    ELSE IF Contains(question, DOC_ADDENDUM) /\ NumberedPattern(question, "ho")
    THEN DOC_REGULATION \o <<"_">> \o DOC_ADDENDUM \o <<"_", "je">>
         \o NumberedGroup(question, "ho") \o <<"ho">>
    ELSE IF NumberedPattern(question, "jo") /\ ~Contains(question, DOC_ADDENDUM)
    THEN DOC_REGULATION \o <<"_", "je">> \o NumberedGroup(question, "jo") \o <<"jo">>
    ELSE << >>

is_attachment_filter(where_filter) ==
    HasPred(FilterConds(where_filter), "doc_type", DOC_ATTACHMENT)

\* _extract_specialty_filter: the specialty predicate, << >> when there is none
extract_specialty_filter(where_filter) ==
    LET at == {i \in DOMAIN FilterConds(where_filter) : FilterConds(where_filter)[i].key = "specialty"}
    IN  IF at = {} THEN << >> ELSE <<FilterConds(where_filter)[MinOf(at)]>>

HasDocType(its, dt) == \E i \in DOMAIN its : its[i].metadata.doc_type = dt

\* the condition of line 359
needs_completion(its, where_filter) ==
    /\ ~HasDocType(its, DOC_ATTACHMENT)
    /\ ~HasDocType(its, DOC_REGULATION)
    /\ Truthy(where_filter)
    /\ ~is_attachment_filter(where_filter)

att_filter(where_filter) ==
    IF extract_specialty_filter(where_filter) # << >>
    THEN AndFilter(extract_specialty_filter(where_filter) \o <<Pred("doc_type", DOC_ATTACHMENT)>>)
    ELSE SingleFilter(Pred("doc_type", DOC_ATTACHMENT))

\* Python: [x for x in seq if keep(x)], keep given as the set of kept indexes
Filtered(seq, keep) ==
    LET idxs == SelectIdx(Len(seq), keep, 1)
    IN  [i \in DOMAIN idxs |-> seq[idxs[i]]]

\* lines 366-368: the hits below the threshold are appended
completed(its, att_items) ==
    its \o Filtered(att_items, {i \in DOMAIN att_items : att_items[i].distance < ATTACHMENT_MAX_DISTANCE})

\* a pruning that drops the total rows only
pruned_total_only(its, where_filter) ==
    IF has_year(where_filter)
    THEN Filtered(its, {i \in DOMAIN its : its[i].metadata.year # YEAR_TOTAL})
    ELSE its

\* lines 375-376
pruned(its, where_filter) ==
    IF has_year(where_filter)
    THEN Filtered(its, {i \in DOMAIN its : its[i].metadata.year \notin {YEAR_TOTAL, YEAR_NOTE}})
    ELSE its

DigitValue(c) == CHOOSE n \in 0..9 : ToString(n) = c

RECURSIVE ParseInt(_)
ParseInt(ds) ==
    IF ds = << >> THEN 0
    ELSE 10 * ParseInt(SubSeq(ds, 1, Len(ds) - 1)) + DigitValue(ds[Len(ds)])

\* doc_id.split("_", 1)[-1]
AfterFirstUnderscore(id) ==
    IF Find(id, <<"_">>) = 0 THEN id ELSE SubSeq(id, Find(id, <<"_">>) + 1, Len(id))

\* int of the first run of digits, NO_NUMBER_RANK without one
FirstNumber(s) ==
    LET at == {i \in DOMAIN s : s[i] \in Digits}
    IN  IF at = {} THEN NO_NUMBER_RANK
        ELSE ParseInt(SubSeq(s, MinOf(at), SkipSet(s, MinOf(at), Digits) - 1))

\* _regulation_sort_key
regulation_sort_key(item) ==
    <<IF item.metadata.category = CAT_BODY THEN 0 ELSE 1, FirstNumber(AfterFirstUnderscore(item.id))>>

RegulationLt(a, b) ==
    LET ka == regulation_sort_key(a)
        kb == regulation_sort_key(b)
    IN  ka[1] < kb[1] \/ (ka[1] = kb[1] /\ ka[2] < kb[2])

\* YEAR_ORDER.get(year, 99)
YEAR_ORDER(year) ==
    IF year \in NumericYears THEN DigitValue(year[1]) - 1
    ELSE IF year = YEAR_TOTAL THEN 4
    ELSE IF year = YEAR_NOTE THEN 5
    ELSE NO_YEAR_RANK

YearLt(a, b) == YEAR_ORDER(a.metadata.year) < YEAR_ORDER(b.metadata.year)

\* an ordering by year whatever the list holds
ordered_by_year(its) == StableSortBy(its, YearLt)

\* lines 378-394
ordered(its) ==
    IF HasDocType(its, DOC_REGULATION) THEN StableSortBy(its, RegulationLt)
    ELSE StableSortBy(its, YearLt)

(***************************************************************************)
(* State.                                                                  *)
(***************************************************************************)
VARIABLES
    collection,     \* the chunks the vector store holds
    snapshot,       \* the pickle file of the lexical index
    heap,           \* the BM25Index objects created so far
    bm25_instance,  \* _bm25_instance: 0 is None, else an index into heap
    question,       \* retrieve: its arguments and the store's behaviour
    top_k,
    emb,
    mode,
    pc,             \* retrieve: the position in its body
    where_filter,
    all_queries,    \* _multi_query: the original and its variations
    variant_out,    \* _multi_query: each variant's outcome
    vector_items,
    bm25_items,
    fused,          \* the result of the fusion, kept
    att_out,        \* the outcome of the supplementary attachment query
    items,          \* the list retrieve returns
    outcome,        \* "none" while running, then "returned" or "raised"
    col_exists,     \* whether the store has the collection
    col_gen,        \* which creation of the collection the store has
    col_cache,      \* indexer._collection: 0 is None, else the creation it names
    ipc,            \* rebuild_index: the position in its body
    ioff,           \* index_chunks: the loop variable i
    wpc,            \* rebuild_bm25_index: the position in its body
    wchunks,        \* rebuild_index / rebuild_bm25_index: the argument chunks
    wref,           \* the instance build runs on
    rpc,            \* per reader of the lexical index: the position
    rref,           \* per reader: the instance it holds
    rdata,          \* per reader: the data load has unpickled
    rans,           \* per reader: the outcome of its query
    vpc,            \* per reader of the vector store: the position
    vobs,           \* per reader of the vector store: what its query saw
    n_arg,          \* _generate_query_variations: its argument n
    variations,     \* _generate_query_variations: what each call returned
    df,             \* process_table / chunk_curriculum_table: the table rows
    merged_rows,    \* process_table: the rows it returns
    chunk_df,       \* chunk_curriculum_table: df after the forward fill
    md_text,        \* chunk_curriculum_table: the lines of the file it reads
    table_chunks,   \* chunk_curriculum_table: its list chunks
    calls           \* index_data.py: the runs of main started

sharedVars == <<collection, snapshot, heap, bm25_instance>>

storeVars == <<col_exists, col_gen, col_cache>>

writerVars == <<ipc, ioff, wpc, wchunks, wref>>

readerVars == <<rpc, rref, rdata, rans, vpc, vobs>>

threadVars == <<storeVars, writerVars, readerVars>>

inputVars == <<question, top_k, emb, mode>>

unitVars == <<n_arg, variations, df, merged_rows, chunk_df, md_text, calls, table_chunks>>

retrieveVars == <<pc, where_filter, all_queries, variant_out, vector_items, bm25_items,
                  fused, att_out, items, outcome>>

vars == <<sharedVars, inputVars, unitVars, threadVars, retrieveVars>>

\* a query that has not run
NoOutcome == [done |-> FALSE, raised |-> FALSE, failed |-> FALSE, items |-> << >>]

\* retrieve has not started
RetrieveAtStart ==
    /\ pc = "start"
    /\ where_filter = NoFilter
    /\ all_queries = << >>
    /\ variant_out = << >>
    /\ vector_items = << >>
    /\ bm25_items = << >>
    /\ fused = << >>
    /\ att_out = NoOutcome
    /\ items = << >>
    /\ outcome = "none"

NumReaders == 2

Readers == 1..NumReaders

\* a position in build, load or get_bm25_index: a named line, or the n-th
\* of the five assignments of build and load
At(a) == [at |-> a, n |-> 0]

Assigning(n) == [at |-> "assign", n |-> n]

\* no call of a function checked on its own has been made
UnitsIdle ==
    /\ n_arg = 0
    /\ variations = << >>
    /\ df = << >>
    /\ merged_rows = << >>
    /\ chunk_df = << >>
    /\ md_text = << >>
    /\ table_chunks = << >>
    /\ calls = 0

\* no rebuild has started and no concurrent reader has
ThreadsIdle ==
    /\ col_exists = TRUE
    /\ col_gen = 1
    /\ col_cache = 0
    /\ ipc = "idle"
    /\ ioff = 0
    /\ wpc = At("idle")
    /\ wchunks = << >>
    /\ wref = 0
    /\ rpc = [r \in Readers |-> At("idle")]
    /\ rref = [r \in Readers |-> 0]
    /\ rdata = [r \in Readers |-> pickled(NewBM25Index)]
    /\ rans = [r \in Readers |-> NoOutcome]
    /\ vpc = [r \in Readers |-> At("idle")]
    /\ vobs = [r \in Readers |-> NoOutcome]

(***************************************************************************)
(* retrieve(question, top_k), step by step.                                *)
(***************************************************************************)
\* line 303
Begin ==
    /\ pc = "start"
    /\ where_filter' = extract_query_filters(question)
    /\ pc' = "lookup"
    /\ UNCHANGED <<sharedVars, inputVars, unitVars, threadVars, all_queries, variant_out, vector_items,
                   bm25_items, fused, att_out, items, outcome>>

\* lines 305-339: the direct lookup; a get that raises is passed over
DirectLookup ==
    /\ pc = "lookup"
    /\ \E raises \in CallRaises(mode) :
          LET target == lookup_target(question, where_filter)
              found == IF target = << >> \/ raises THEN {} ELSE col_get(collection, target)
          IN  IF found # {}
              THEN /\ items' = <<[id |-> target,
                                  text |-> (CHOOSE c \in found : TRUE).text,
                                  metadata |-> (CHOOSE c \in found : TRUE).metadata,
                                  distance |-> Absent, bm25_score |-> Absent]>>
                   /\ outcome' = "returned"
                   /\ pc' = "done"
              ELSE /\ pc' = "multi_query"
                   /\ UNCHANGED <<items, outcome>>
    /\ UNCHANGED <<sharedVars, inputVars, unitVars, threadVars, where_filter, all_queries, variant_out,
                   vector_items, bm25_items, fused, att_out>>

fetch_k == top_k * BM25_TOP_K_MULTIPLIER

\* lines 227-228, and the submission of one task per query
StartVariants ==
    /\ pc = "multi_query"
    /\ all_queries' = <<question>> \o generate_query_variations(question, MULTI_QUERY_COUNT - 1)
    /\ variant_out' = [i \in DOMAIN all_queries' |-> NoOutcome]
    /\ pc' = "variants"
    /\ UNCHANGED <<sharedVars, inputVars, unitVars, threadVars, where_filter, vector_items, bm25_items,
                   fused, att_out, items, outcome>>

\* run_query(all_queries[i]) on a worker thread
RunVariant(i) ==
    /\ pc = "variants"
    /\ ~variant_out[i].done
    /\ \E raise1, raise2 \in CallRaises(mode) :
          variant_out' = [variant_out EXCEPT ![i] =
              query(collection, emb, all_queries[i], fetch_k, where_filter, raise1, raise2)]
    /\ UNCHANGED <<sharedVars, inputVars, unitVars, threadVars, pc, where_filter, all_queries, vector_items,
                   bm25_items, fused, att_out, items, outcome>>

\* the merge started as soon as one query has finished
SomeVariantDone == \E i \in DOMAIN variant_out : variant_out[i].done

\* lines 233-234: the with block has joined the pool
AllVariantsDone == \A i \in DOMAIN variant_out : variant_out[i].done

AnyVariantRaised == \E i \in DOMAIN variant_out : variant_out[i].raised

\* list(executor.map(...)) after the pool has joined, then lines 236-245;
\* the exception of a variant comes out of retrieve
MergeVariants ==
    /\ pc = "variants"
    /\ AllVariantsDone
    /\ IF AnyVariantRaised
       THEN /\ outcome' = "raised"
            /\ pc' = "done"
            /\ UNCHANGED vector_items
       ELSE /\ vector_items' = merge_results([i \in DOMAIN variant_out |-> variant_out[i].items], fetch_k)
            /\ pc' = "lexical"
            /\ UNCHANGED outcome
    /\ UNCHANGED <<sharedVars, inputVars, unitVars, threadVars, where_filter, all_queries, variant_out,
                   bm25_items, fused, att_out, items>>

\* BM25Index.load on a fresh instance
bm25_load(snap) ==
    IF snap.exists
    THEN [doc_ids |-> snap.data.doc_ids, doc_texts |-> snap.data.doc_texts,
          doc_metadatas |-> snap.data.doc_metadatas,
          tokenized_corpus |-> snap.data.tokenized_corpus,
          bm25 |-> BM25Okapi(snap.data.tokenized_corpus)]
    ELSE NewBM25Index

\* lines 348-350: get_bm25_index() with its lazy load, the query, the fusion
Lexical ==
    /\ pc = "lexical"
    /\ IF bm25_instance = 0
       THEN /\ heap' = Append(heap, bm25_load(snapshot))
            /\ bm25_instance' = Len(heap) + 1
       ELSE UNCHANGED <<heap, bm25_instance>>
    /\ bm25_items' = bm25_query(heap'[bm25_instance'], question, fetch_k, where_filter)
    /\ fused' = reciprocal_rank_fusion(vector_items, bm25_items', top_k)
    /\ pc' = "attach"
    /\ UNCHANGED <<collection, snapshot, inputVars, unitVars, threadVars, where_filter, all_queries, variant_out,
                   vector_items, att_out, items, outcome>>

\* lines 354-368: attachment completion; its query's exception comes out
Attach ==
    /\ pc = "attach"
    /\ IF needs_completion(fused, where_filter)
       THEN \E raise1, raise2 \in CallRaises(mode) :
               LET out == query(collection, emb, question, ATTACHMENT_TOP_K,
                                att_filter(where_filter), raise1, raise2)
               IN  /\ att_out' = out
                   /\ IF out.raised
                      THEN /\ outcome' = "raised"
                           /\ pc' = "done"
                           /\ UNCHANGED items
                      ELSE /\ items' = completed(fused, out.items)
                           /\ pc' = "finish"
                           /\ UNCHANGED outcome
       ELSE /\ items' = fused
            /\ pc' = "finish"
            /\ UNCHANGED <<att_out, outcome>>
    /\ UNCHANGED <<sharedVars, inputVars, unitVars, threadVars, where_filter, all_queries, variant_out,
                   vector_items, bm25_items, fused>>

\* lines 370-396: pruning, ordering, return
Finish ==
    /\ pc = "finish"
    /\ items' = ordered(pruned(items, where_filter))
    /\ outcome' = "returned"
    /\ pc' = "done"
    /\ UNCHANGED <<sharedVars, inputVars, unitVars, threadVars, where_filter, all_queries, variant_out,
                   vector_items, bm25_items, fused, att_out>>

RetrieveInit ==
    /\ UnitsIdle
    /\ collection \in Collections
    /\ snapshot \in Snapshots
    /\ heap = << >>
    /\ bm25_instance = 0
    /\ question \in Questions
    /\ top_k \in 1..MaxTopK
    /\ emb \in 1..NumEmbeddings
    /\ mode \in Modes
    /\ RetrieveAtStart
    /\ ThreadsIdle

RetrieveNext ==
    \/ Begin
    \/ DirectLookup
    \/ StartVariants
    \/ \E i \in 1..MULTI_QUERY_COUNT : i \in DOMAIN variant_out /\ RunVariant(i)
    \/ MergeVariants
    \/ Lexical
    \/ Attach
    \/ Finish

SpecRetrieve == RetrieveInit /\ [][RetrieveNext]_vars

(***************************************************************************)
(* Properties of retrieve.                                                 *)
(***************************************************************************)
\* the variants' results with those of the failing variants left out
SurvivingResults == [i \in DOMAIN variant_out |->
                        IF variant_out[i].failed THEN << >> ELSE variant_out[i].items]

\* C3: when the store query of a variant has failed, retrieve does not raise,
\* and the merged vector list is computed from the other variants alone
VariantFailureContained ==
    (\E i \in DOMAIN variant_out : variant_out[i].done /\ variant_out[i].failed) =>
        /\ outcome # "raised"
        /\ pc \in {"lexical", "attach", "finish"} =>
              vector_items = merge_results(SurvivingResults, fetch_k)

\* C4: with the store unreachable retrieve never returns a list and never
\* gets past the vector step: when it ends, it has raised
UnreachableStoreRaises ==
    mode = "down" =>
        /\ outcome # "returned"
        /\ pc \in {"start", "lookup", "multi_query", "variants", "done"}
        /\ pc = "done" => outcome = "raised"

\* C4 witness: the store is down, a direct lookup was attempted, and retrieve
\* has raised
UnreachableStoreRaised ==
    /\ mode = "down"
    /\ lookup_target(question, where_filter) # << >>
    /\ pc = "done"
    /\ outcome = "raised"

\* C5: when the attachment query has failed, retrieve returns the fused
\* primary results, pruned and ordered, without supplementary hits
AttachmentFailureContained ==
    (att_out.done /\ att_out.failed) =>
        /\ outcome # "raised"
        /\ pc = "done" => items = ordered(pruned(fused, where_filter))

\* C6: with no snapshot of the lexical index, the lexical step yields the
\* empty list and the fused result is the first top_k items of the merged
\* vector list, in the same order
UnbuiltIndexKeepsVectorOrder ==
    (~snapshot.exists /\ pc \in {"attach", "finish", "done"}) =>
        /\ bm25_items = << >>
        /\ IdsOf(fused) = IdsOf(Take(vector_items, top_k))
        /\ \A i \in DOMAIN fused :
              /\ fused[i].text = vector_items[i].text
              /\ fused[i].metadata = vector_items[i].metadata

\* C6 witness: no snapshot, the fusion has run on a vector list longer than
\* top_k with at least two items kept
UnbuiltIndexFused ==
    /\ ~snapshot.exists
    /\ pc = "attach"
    /\ Len(vector_items) > top_k
    /\ Len(fused) >= 2

\* the (id, distance) pairs the variants report
VariantHits ==
    {[id |-> variant_out[p[1]].items[p[2]].id, distance |-> variant_out[p[1]].items[p[2]].distance] :
        p \in {q \in (DOMAIN variant_out) \X (1..fetch_k) : q[2] <= Len(variant_out[q[1]].items)}}

VariantIds == {h.id : h \in VariantHits}

LeastDistance(id) ==
    CHOOSE d \in {h.distance : h \in {g \in VariantHits : g.id = id}} :
        \A h \in VariantHits : h.id = id => d <= h.distance

\* C8: one result of at most fetch_k items per variant; the merged list holds
\* each id once with the least distance any variant reports for it, ascends
\* by distance, and is cut to the fetch_k nearest ids
MergeKeepsNearest ==
    pc \in {"lexical", "attach", "finish"} =>
        /\ Len(variant_out) = Len(all_queries)
        /\ \A i \in DOMAIN variant_out : Len(variant_out[i].items) <= fetch_k
        /\ \A i, j \in DOMAIN vector_items : vector_items[i].id = vector_items[j].id => i = j
        /\ \A i \in DOMAIN vector_items :
              /\ vector_items[i].id \in VariantIds
              /\ vector_items[i].distance = LeastDistance(vector_items[i].id)
        /\ \A i, j \in DOMAIN vector_items : i < j => vector_items[i].distance <= vector_items[j].distance
        /\ Len(vector_items) = Min(fetch_k, Cardinality(VariantIds))
        /\ \A id \in VariantIds \ SeqToSet(IdsOf(vector_items)) :
              LeastDistance(id) >= vector_items[Len(vector_items)].distance

\* C8 witness: the variants disagree on the distance of an id, report more
\* than fetch_k ids, and the merge has run
MergeOfDisagreeingVariants ==
    /\ pc = "lexical"
    /\ Len(all_queries) = MULTI_QUERY_COUNT
    /\ \E g, h \in VariantHits : g.id = h.id /\ g.distance # h.distance
    /\ Cardinality(VariantIds) > fetch_k

\* the numeric years a filter may ask for
AsksNumericYear ==
    \E i \in DOMAIN where_filter.conds :
        /\ where_filter.conds[i].key = "year"
        /\ where_filter.conds[i].value \in {<<"1">>, <<"2">>, <<"3">>, <<"4">>}

NUM_FIELDS == 5

\* the n-th assignment of BM25Index.build, lines 45-49
build_field(self, n, chunks) ==
    IF n = 1 THEN [self EXCEPT !.doc_ids = [i \in DOMAIN chunks |-> chunks[i].id]]
    ELSE IF n = 2 THEN [self EXCEPT !.doc_texts = [i \in DOMAIN chunks |-> chunks[i].text]]
    ELSE IF n = 3 THEN [self EXCEPT !.doc_metadatas = [i \in DOMAIN chunks |-> chunks[i].metadata]]
    ELSE IF n = 4 THEN [self EXCEPT !.tokenized_corpus = [i \in DOMAIN chunks |-> Tokenize(chunks[i].text)]]
    ELSE [self EXCEPT !.bm25 = BM25Okapi(self.tokenized_corpus)]

\* the n-th assignment of BM25Index.load, lines 67-71
load_field(self, n, data) ==
    IF n = 1 THEN [self EXCEPT !.doc_ids = data.doc_ids]
    ELSE IF n = 2 THEN [self EXCEPT !.doc_texts = data.doc_texts]
    ELSE IF n = 3 THEN [self EXCEPT !.doc_metadatas = data.doc_metadatas]
    ELSE IF n = 4 THEN [self EXCEPT !.tokenized_corpus = data.tokenized_corpus]
    ELSE [self EXCEPT !.bm25 = BM25Okapi(self.tokenized_corpus)]

\* BM25Okapi divides by the number of documents
okapi_raises(tokenized_corpus) == tokenized_corpus = << >>

\* line 127: the global names a new, empty instance
WNew ==
    /\ wpc = At("new")
    /\ heap' = Append(heap, NewBM25Index)
    /\ bm25_instance' = Len(heap) + 1
    /\ wpc' = At("bind")
    /\ UNCHANGED <<collection, snapshot, inputVars, unitVars, storeVars, ipc, ioff, wchunks, wref,
                   readerVars, retrieveVars>>

\* line 128: the global is read, build is called on what it names
WBind ==
    /\ wpc = At("bind")
    /\ wref' = bm25_instance
    /\ wpc' = Assigning(1)
    /\ UNCHANGED <<sharedVars, inputVars, unitVars, storeVars, ipc, ioff, wchunks, readerVars, retrieveVars>>

\* lines 45-49, one assignment
WBuild(n) ==
    /\ wpc = Assigning(n)
    /\ IF n = NUM_FIELDS /\ okapi_raises(heap[wref].tokenized_corpus)
       THEN /\ wpc' = At("raised")
            /\ UNCHANGED heap
       ELSE /\ heap' = [heap EXCEPT ![wref] = build_field(heap[wref], n, wchunks)]
            /\ wpc' = IF n < NUM_FIELDS THEN Assigning(n + 1) ELSE At("save")
    /\ UNCHANGED <<collection, snapshot, bm25_instance, inputVars, unitVars, storeVars, ipc, ioff,
                   wchunks, wref, readerVars, retrieveVars>>

\* line 129: the global is read, what it names is pickled
WSave ==
    /\ wpc = At("save")
    /\ snapshot' = [exists |-> TRUE, data |-> pickled(heap[bm25_instance])]
    /\ wpc' = At("done")
    /\ UNCHANGED <<collection, heap, bm25_instance, inputVars, unitVars, storeVars, ipc, ioff,
                   wchunks, wref, readerVars, retrieveVars>>

\* BM25Index.query without a filter reads the three lists at the indexes of
\* the top_k positive scores: whether one of them is past the end of a list
query_reads_past_end(self, text, k) ==
    /\ self.bm25.built
    /\ Tokenize(text) # << >>
    /\ LET tq == Tokenize(text)
           score(idx) == get_scores(self.bm25.corpus, idx, tq)
           positive == {idx \in DOMAIN self.bm25.corpus : score(idx) > 0}
           before(idx) == {j \in positive : score(j) > score(idx) \/ (score(j) = score(idx) /\ j < idx)}
           short == Min(Len(self.doc_ids), Min(Len(self.doc_texts), Len(self.doc_metadatas)))
       IN  \E idx \in positive : idx > short /\ Cardinality(before(idx)) < k

\* BM25Index.query(text, k) on an instance another thread may be
\* filling: an IndexError, or the list returned
reader_query(self, text, k) ==
    IF query_reads_past_end(self, text, k)
    THEN [done |-> TRUE, raised |-> TRUE, failed |-> TRUE, items |-> << >>]
    ELSE [done |-> TRUE, raised |-> FALSE, failed |-> FALSE,
          items |-> bm25_query(self, text, k, NoFilter)]

\* get_bm25_index, line 119: the test of the global
RCheck(r) ==
    /\ rpc[r] = At("idle")
    /\ rpc' = [rpc EXCEPT ![r] = IF bm25_instance = 0 THEN At("create") ELSE At("return")]
    /\ UNCHANGED <<sharedVars, inputVars, unitVars, storeVars, writerVars, rref, rdata, rans, vpc, vobs,
                   retrieveVars>>

\* line 120: the global names a new, empty instance
RCreate(r) ==
    /\ rpc[r] = At("create")
    /\ heap' = Append(heap, NewBM25Index)
    /\ bm25_instance' = Len(heap) + 1
    /\ rpc' = [rpc EXCEPT ![r] = At("bind")]
    /\ UNCHANGED <<collection, snapshot, inputVars, unitVars, storeVars, writerVars, rref, rdata, rans,
                   vpc, vobs, retrieveVars>>

\* line 121: the global is read, load is called on what it names
RBind(r) ==
    /\ rpc[r] = At("bind")
    /\ rref' = [rref EXCEPT ![r] = bm25_instance]
    /\ rpc' = [rpc EXCEPT ![r] = At("load")]
    /\ UNCHANGED <<sharedVars, inputVars, unitVars, storeVars, writerVars, rdata, rans, vpc, vobs,
                   retrieveVars>>

\* load, lines 63-66: no file, or the file unpickled
RLoad(r) ==
    /\ rpc[r] = At("load")
    /\ IF snapshot.exists
       THEN /\ rdata' = [rdata EXCEPT ![r] = snapshot.data]
            /\ rpc' = [rpc EXCEPT ![r] = Assigning(1)]
       ELSE /\ rpc' = [rpc EXCEPT ![r] = At("return")]
            /\ UNCHANGED rdata
    /\ UNCHANGED <<sharedVars, inputVars, unitVars, storeVars, writerVars, rref, rans, vpc, vobs,
                   retrieveVars>>

\* load, lines 67-71, one assignment; BM25Okapi may raise
RAssign(r, n) ==
    /\ rpc[r] = Assigning(n)
    /\ IF n = NUM_FIELDS /\ okapi_raises(heap[rref[r]].tokenized_corpus)
       THEN /\ rans' = [rans EXCEPT ![r] = [done |-> TRUE, raised |-> TRUE, failed |-> TRUE, items |-> << >>]]
            /\ rpc' = [rpc EXCEPT ![r] = At("done")]
            /\ UNCHANGED heap
       ELSE /\ heap' = [heap EXCEPT ![rref[r]] = load_field(heap[rref[r]], n, rdata[r])]
            /\ rpc' = [rpc EXCEPT ![r] = IF n < NUM_FIELDS THEN Assigning(n + 1) ELSE At("return")]
            /\ UNCHANGED rans
    /\ UNCHANGED <<collection, snapshot, bm25_instance, inputVars, unitVars, storeVars, writerVars,
                   rref, rdata, vpc, vobs, retrieveVars>>

\* line 122: the global is read and returned
RReturn(r) ==
    /\ rpc[r] = At("return")
    /\ rref' = [rref EXCEPT ![r] = bm25_instance]
    /\ rpc' = [rpc EXCEPT ![r] = At("query")]
    /\ UNCHANGED <<sharedVars, inputVars, unitVars, storeVars, writerVars, rdata, rans, vpc, vobs,
                   retrieveVars>>

\* .query(question, top_k) on the instance returned
RQuery(r) ==
    /\ rpc[r] = At("query")
    /\ rans' = [rans EXCEPT ![r] = reader_query(heap[rref[r]], question, top_k)]
    /\ rpc' = [rpc EXCEPT ![r] = At("done")]
    /\ UNCHANGED <<sharedVars, inputVars, unitVars, storeVars, writerVars, rref, rdata, vpc, vobs,
                   retrieveVars>>

\* the chunks indexed before the rebuild, and the lists a rebuild is given
OldChunks == SubSeq(Corpus, 1, 3)

NewChunkLists == {SubSeq(Corpus, 2, 5)}

LexicalQuestions == {<<"jin", "ryo">>}

\* a retrieve that is not running
RetrieveIdle ==
    /\ emb = 1
    /\ mode = "up"
    /\ pc = "idle"
    /\ where_filter = NoFilter
    /\ all_queries = << >>
    /\ variant_out = << >>
    /\ vector_items = << >>
    /\ bm25_items = << >>
    /\ fused = << >>
    /\ att_out = NoOutcome
    /\ items = << >>
    /\ outcome = "none"

\* the store as the readers of the lexical index leave it
StoreIdle ==
    /\ collection = {}
    /\ col_exists = TRUE
    /\ col_gen = 1
    /\ col_cache = 0
    /\ ipc = "idle"
    /\ ioff = 0
    /\ vpc = [r \in Readers |-> At("idle")]
    /\ vobs = [r \in Readers |-> NoOutcome]

\* the old snapshot is on disk, loaded already or not; a rebuild is called
BM25Init ==
    /\ UnitsIdle
    /\ snapshot = SnapshotOf(OldChunks)
    /\ \/ heap = << >> /\ bm25_instance = 0
       \/ heap = <<bm25_build(OldChunks)>> /\ bm25_instance = 1
    /\ question \in LexicalQuestions
    /\ top_k \in 1..MaxTopK
    /\ wpc = At("new")
    /\ wchunks \in NewChunkLists
    /\ wref = 0
    /\ rpc = [r \in Readers |-> At("idle")]
    /\ rref = [r \in Readers |-> 0]
    /\ rdata = [r \in Readers |-> pickled(NewBM25Index)]
    /\ rans = [r \in Readers |-> NoOutcome]
    /\ RetrieveIdle
    /\ StoreIdle

BM25Next ==
    \/ WNew
    \/ WBind
    \/ \E n \in 1..NUM_FIELDS : WBuild(n)
    \/ WSave
    \/ \E r \in Readers : RCheck(r)
    \/ \E r \in Readers : RCreate(r)
    \/ \E r \in Readers : RBind(r)
    \/ \E r \in Readers : RLoad(r)
    \/ \E r \in Readers : \E n \in 1..NUM_FIELDS : RAssign(r, n)
    \/ \E r \in Readers : RReturn(r)
    \/ \E r \in Readers : RQuery(r)

SpecBM25 == BM25Init /\ [][BM25Next]_vars

\* the instances a reader may be handed: the old snapshot or the new one
WholeSnapshots == {bm25_build(OldChunks), bm25_build(wchunks)}

\* C1: every reader holds a whole snapshot when it queries, the old one or
\* the new one, and its answer is the answer of that snapshot
ReadersSeeWholeSnapshot ==
    \A r \in Readers :
        /\ rpc[r] = At("query") => heap[rref[r]] \in WholeSnapshots
        /\ rpc[r] = At("done") =>
              /\ ~rans[r].raised
              /\ rans[r].items \in {bm25_query(s, question, top_k, NoFilter) : s \in WholeSnapshots}

(***************************************************************************)
(* The vector store under threads: rebuild_index(wchunks) on one thread,   *)
(* get_collection() and a read of the collection on the readers.           *)
(***************************************************************************)
batch_size == 50

MaxBatches == 2

\* a list of n chunks handed to rebuild_index: attachments, numbered
ChunkList(n) ==
    [i \in 1..n |-> AttachmentChunk(<<"nae", "gwa">>, <<"byeol", "ji", ToString(i)>>, <<"jeom", "su">>)]

\* the lengths of the lists: up to MaxBatches full batches and one more chunk
ChunkCounts == {1, batch_size} \cup {b * batch_size + 1 : b \in 1..MaxBatches}

\* col.upsert(ids, documents, metadatas): the entries of the ids replaced,
\* the last entry of the batch kept for an id the batch repeats
upsert(coll, batch) ==
    {c \in coll : \A i \in DOMAIN batch : batch[i].id # c.id}
        \cup {batch[i] : i \in {i \in DOMAIN batch :
                                  \A j \in DOMAIN batch : j > i => batch[j].id # batch[i].id}}

\* lines 70-74: the collection is deleted
IDelete ==
    /\ ipc = "delete"
    /\ col_exists' = FALSE
    /\ collection' = {}
    /\ ipc' = "reset"
    /\ UNCHANGED <<snapshot, heap, bm25_instance, inputVars, unitVars, col_gen, col_cache, ioff, wpc,
                   wchunks, wref, readerVars, retrieveVars>>

\* line 75
IReset ==
    /\ ipc = "reset"
    /\ col_cache' = 0
    /\ ipc' = "get"
    /\ UNCHANGED <<sharedVars, inputVars, unitVars, col_exists, col_gen, ioff, wpc, wchunks, wref,
                   readerVars, retrieveVars>>

\* get_collection, lines 33-41: the cached handle, or get_or_create_collection
get_collection ==
    IF col_cache # 0 THEN UNCHANGED <<collection, col_exists, col_gen, col_cache>>
    ELSE IF col_exists
    THEN col_cache' = col_gen /\ UNCHANGED <<collection, col_exists, col_gen>>
    ELSE /\ col_exists' = TRUE
         /\ col_gen' = col_gen + 1
         /\ col_cache' = col_gen + 1
         /\ collection' = {}

\* index_chunks, line 55
IGet ==
    /\ ipc = "get"
    /\ get_collection
    /\ ioff' = 0
    /\ ipc' = "upsert"
    /\ UNCHANGED <<snapshot, heap, bm25_instance, inputVars, unitVars, wpc, wchunks, wref, readerVars,
                   retrieveVars>>

\* lines 57-63, one round of the loop; line 64 calls rebuild_bm25_index
IUpsert ==
    /\ ipc = "upsert"
    /\ IF ioff < Len(wchunks)
       THEN /\ collection' = upsert(collection, SubSeq(wchunks, ioff + 1, Min(ioff + batch_size, Len(wchunks))))
            /\ ioff' = ioff + batch_size
            /\ UNCHANGED <<ipc, wpc>>
       ELSE /\ ipc' = "lexical"
            /\ wpc' = At("new")
            /\ UNCHANGED <<collection, ioff>>
    /\ UNCHANGED <<snapshot, heap, bm25_instance, inputVars, unitVars, storeVars, wchunks, wref,
                   readerVars, retrieveVars>>

\* line 65: col.count() once rebuild_bm25_index has returned
ICount ==
    /\ ipc = "lexical"
    /\ wpc = At("done")
    /\ ipc' = "done"
    /\ UNCHANGED <<sharedVars, inputVars, unitVars, storeVars, ioff, wpc, wchunks, wref, readerVars,
                   retrieveVars>>

\* a reader's get_collection(): the handle it is given
VGet(r) ==
    /\ vpc[r] = At("idle")
    /\ get_collection
    /\ vpc' = [vpc EXCEPT ![r] = [at |-> "read", n |-> col_cache']]
    /\ UNCHANGED <<snapshot, heap, bm25_instance, inputVars, unitVars, writerVars, rpc, rref, rdata,
                   rans, vobs, retrieveVars>>

\* a reader's read through its handle: the handle of a deleted collection
\* raises, a live one shows what the collection holds
VRead(r) ==
    /\ vpc[r].at = "read"
    /\ vobs' = [vobs EXCEPT ![r] =
          IF ~col_exists \/ vpc[r].n # col_gen
          THEN [done |-> TRUE, raised |-> TRUE, failed |-> TRUE, items |-> {}]
          ELSE [done |-> TRUE, raised |-> FALSE, failed |-> FALSE, items |-> collection]]
    /\ vpc' = [vpc EXCEPT ![r] = At("done")]
    /\ UNCHANGED <<sharedVars, inputVars, unitVars, storeVars, writerVars, rpc, rref, rdata, rans,
                   retrieveVars>>

\* the store holds the old chunks, indexed by an earlier run whose handle
\* the process may still cache; rebuild_index is called with a new list
IndexInit ==
    /\ UnitsIdle
    /\ collection = SeqToSet(OldChunks)
    /\ snapshot = SnapshotOf(OldChunks)
    /\ \/ heap = << >> /\ bm25_instance = 0
       \/ heap = <<bm25_build(OldChunks)>> /\ bm25_instance = 1
    /\ question \in LexicalQuestions
    /\ top_k = 1
    /\ col_exists = TRUE
    /\ col_gen = 1
    /\ col_cache \in {0, 1}
    /\ ipc = "delete"
    /\ ioff = 0
    /\ wpc = At("idle")
    /\ wchunks \in {ChunkList(n) : n \in ChunkCounts}
    /\ wref = 0
    /\ rpc = [r \in Readers |-> At("idle")]
    /\ rref = [r \in Readers |-> 0]
    /\ rdata = [r \in Readers |-> pickled(NewBM25Index)]
    /\ rans = [r \in Readers |-> NoOutcome]
    /\ vpc = [r \in Readers |-> At("idle")]
    /\ vobs = [r \in Readers |-> NoOutcome]
    /\ RetrieveIdle

IndexNext ==
    \/ IDelete
    \/ IReset
    \/ IGet
    \/ IUpsert
    \/ WNew
    \/ WBind
    \/ \E n \in 1..NUM_FIELDS : WBuild(n)
    \/ WSave
    \/ ICount
    \/ \E r \in Readers : VGet(r)
    \/ \E r \in Readers : VRead(r)

SpecIndex == IndexInit /\ [][IndexNext]_vars

\* C2: what a reader sees of the vector store while rebuild_index runs is
\* the full old chunk set or the full new chunk set
ReadersSeeWholeStore ==
    \A r \in Readers :
        vobs[r].done =>
            /\ ~vobs[r].raised
            /\ vobs[r].items \in {SeqToSet(OldChunks), SeqToSet(wchunks)}

(***************************************************************************)
(* _reciprocal_rank_fusion on its own: two ranked lists and k.             *)
(***************************************************************************)
MaxListLen == 3

NumFusedDocs == 3

FusedDocs == SeqToSet(SubSeq(Corpus, 1, NumFusedDocs))

\* the ranked lists over FusedDocs without a repeated id, up to MaxListLen
\* long; a vector list carries distances, a lexical list scores
RankedLists(vector) ==
    UNION {{[i \in 1..n |->
                [id |-> f[i].id, text |-> f[i].text, metadata |-> f[i].metadata,
                 distance |-> IF vector THEN i ELSE Absent,
                 bm25_score |-> IF vector THEN Absent ELSE MaxListLen + 2 - i]] :
             f \in {g \in [1..n -> FusedDocs] : \A i, j \in 1..n : g[i] = g[j] => i = j}} :
           n \in 0..MaxListLen}

FusionInit ==
    /\ UnitsIdle
    /\ vector_items \in RankedLists(TRUE)
    /\ bm25_items \in RankedLists(FALSE)
    /\ top_k \in 1..MaxTopK
    /\ pc = "fuse"
    /\ fused = << >>
    /\ collection = {}
    /\ snapshot = NoSnapshot
    /\ heap = << >>
    /\ bm25_instance = 0
    /\ question = << >>
    /\ emb = 1
    /\ mode = "up"
    /\ where_filter = NoFilter
    /\ all_queries = << >>
    /\ variant_out = << >>
    /\ att_out = NoOutcome
    /\ items = << >>
    /\ outcome = "none"
    /\ ThreadsIdle

Fuse ==
    /\ pc = "fuse"
    /\ fused' = reciprocal_rank_fusion(vector_items, bm25_items, top_k)
    /\ pc' = "fused"
    /\ UNCHANGED <<sharedVars, inputVars, unitVars, threadVars, where_filter, all_queries, variant_out,
                   vector_items, bm25_items, att_out, items, outcome>>

SpecFusion == FusionInit /\ [][Fuse]_vars

ListIds(its) == {its[i].id : i \in DOMAIN its}

\* weight / (RRF_K + rank) for the 1-based position of id in the list, zero
\* for a list without it
RankTerm(its, weight, id) ==
    IF id \in ListIds(its)
    THEN Frac(weight, RRF_K + (CHOOSE i \in DOMAIN its : its[i].id = id))
    ELSE Zero

SummedRank(id) ==
    FracAdd(RankTerm(vector_items, VECTOR_WEIGHT, id), RankTerm(bm25_items, BM25_WEIGHT, id))

\* C7: the score of an id is the sum of weight / (RRF_K + rank) over the
\* lists that hold it; the output holds each id once, by non-increasing
\* score, the min(top_k, distinct ids) best of them
FusionRanksBySummedRank ==
    pc = "fused" =>
        LET ids == ListIds(vector_items) \cup ListIds(bm25_items)
        IN  /\ \A id \in ids : rrf_score(vector_items, bm25_items, id) = SummedRank(id)
            /\ \A i, j \in DOMAIN fused : fused[i].id = fused[j].id => i = j
            /\ \A i, j \in DOMAIN fused :
                  i < j => ~FracLt(SummedRank(fused[i].id), SummedRank(fused[j].id))
            /\ Len(fused) = Min(top_k, Cardinality(ids))
            /\ ListIds(fused) \subseteq ids
            /\ \A id \in ids \ ListIds(fused) : \A i \in DOMAIN fused :
                  ~FracLt(SummedRank(fused[i].id), SummedRank(id))

\* C7 witness: an id in both lists, an id in one list only, fewer kept
\* than there are ids
FusionOfOverlappingLists ==
    /\ pc = "fused"
    /\ ListIds(vector_items) \cap ListIds(bm25_items) # {}
    /\ ListIds(vector_items) \ ListIds(bm25_items) # {}
    /\ Len(fused) >= 2
    /\ Len(fused) < Cardinality(ListIds(vector_items) \cup ListIds(bm25_items))

(***************************************************************************)
(* BM25Index.query on its own: an index, a question, k and a filter.       *)
(***************************************************************************)
\* the chunk lists the index is built from
LexicalCorpora == {Corpus, SubSeq(Corpus, 1, 4), SubSeq(Corpus, 3, 7)}

\* the filters handed to query: none, one predicate, a conjunction
LexicalFilters == {
    NoFilter,
    SingleFilter(Pred("specialty", <<"nae", "gwa">>)),
    SingleFilter(Pred("doc_type", DOC_REGULATION)),
    AndFilter(<<Pred("specialty", <<"nae", "gwa">>), Pred("year", <<"1">>)>>),
    AndFilter(<<Pred("specialty", <<"nae", "gwa">>), Pred("doc_type", DOC_YEARLY),
                Pred("category", <<"gyo", "gwa", "nae", "yong">>)>>)
    }

\* the texts handed to query
QueryTexts == Questions \cup {<<"su", "sul", " ", "su", "ryeon">>, <<"su", "sul", ",", "jin", "ryo">>}

LexicalInit ==
    /\ UnitsIdle
    /\ heap \in {<<bm25_build(c)>> : c \in LexicalCorpora} \cup {<<NewBM25Index>>}
    /\ bm25_instance = 1
    /\ question \in QueryTexts
    /\ top_k \in 1..MaxTopK
    /\ where_filter \in LexicalFilters
    /\ pc = "lexical_query"
    /\ bm25_items = << >>
    /\ collection = {}
    /\ snapshot = NoSnapshot
    /\ emb = 1
    /\ mode = "up"
    /\ all_queries = << >>
    /\ variant_out = << >>
    /\ vector_items = << >>
    /\ fused = << >>
    /\ att_out = NoOutcome
    /\ items = << >>
    /\ outcome = "none"
    /\ ThreadsIdle

LexicalQuery ==
    /\ pc = "lexical_query"
    /\ bm25_items' = bm25_query(heap[bm25_instance], question, top_k, where_filter)
    /\ pc' = "lexical_done"
    /\ UNCHANGED <<sharedVars, inputVars, unitVars, threadVars, where_filter, all_queries, variant_out,
                   vector_items, fused, att_out, items, outcome>>

SpecLexical == LexicalInit /\ [][LexicalQuery]_vars

SharesToken(text, other) == SeqToSet(Tokenize(text)) \cap SeqToSet(Tokenize(other)) # {}

\* C9: query returns at most top_k chunks of the index, by non-increasing
\* score, each with a positive score, metadata equal to the filter on every
\* key the filter names, and a token in common with the question
LexicalQueryReturnsMatches ==
    pc = "lexical_done" =>
        /\ Len(bm25_items) <= top_k
        /\ \A i, j \in DOMAIN bm25_items : i < j => bm25_items[i].bm25_score >= bm25_items[j].bm25_score
        /\ \A i \in DOMAIN bm25_items :
              /\ bm25_items[i].bm25_score > 0
              /\ \A c \in DOMAIN where_filter.conds :
                    bm25_items[i].metadata[where_filter.conds[c].key] = where_filter.conds[c].value
              /\ SharesToken(bm25_items[i].text, question)
              /\ \E d \in DOMAIN heap[bm25_instance].doc_ids :
                    /\ heap[bm25_instance].doc_ids[d] = bm25_items[i].id
                    /\ heap[bm25_instance].doc_texts[d] = bm25_items[i].text

\* C9 witness: a filtered query has returned two chunks and has left out a
\* chunk that shares a token but fails the filter, and a chunk that passes
\* the filter but shares no token
LexicalQueryLeftChunksOut ==
    /\ pc = "lexical_done"
    /\ Len(bm25_items) >= 2
    /\ Truthy(where_filter)
    /\ \E d \in DOMAIN heap[bm25_instance].doc_ids :
          /\ SharesToken(heap[bm25_instance].doc_texts[d], question)
          /\ ~match_filter(heap[bm25_instance].doc_metadatas[d], where_filter)
    /\ \E d \in DOMAIN heap[bm25_instance].doc_ids :
          /\ ~SharesToken(heap[bm25_instance].doc_texts[d], question)
          /\ match_filter(heap[bm25_instance].doc_metadatas[d], where_filter)

(***************************************************************************)
(* The final ordering of retrieve on its own: the list at line 370, the    *)
(* inferred filter, then lines 370-396.                                    *)
(***************************************************************************)
MaxOrderLen == 3

\* the chunks the list is drawn from: articles 3 and 12, decree 5, two
\* chunks of year 1, a total, a note, an attachment and a general document
OrderDocs ==
    (SeqToSet(Corpus) \ {Corpus[2]}) \cup {
        RegulationArticleChunk(<<"1", "2">>, <<"je", "1", "2", "jo", " ", "su", "ryeon">>),
        YearCategoryChunk(<<"nae", "gwa">>, <<"1">>, <<"non", "mun", "je", "chul">>, <<"non", "mun">>)
        }

\* the lists of up to MaxOrderLen chunks, no id twice, as the fusion leaves them
OrderLists ==
    UNION {{[i \in 1..n |->
                [id |-> f[i].id, text |-> f[i].text, metadata |-> f[i].metadata,
                 distance |-> Absent, bm25_score |-> Absent]] :
             f \in {g \in [1..n -> OrderDocs] : \A i, j \in 1..n : g[i] = g[j] => i = j}} :
           n \in 0..MaxOrderLen}

OrderQuestions == {
    <<"nae", "gwa", " ", "2", "nyeon", "cha", " ", "gyo", "gwa", "nae", "yong">>,
    <<"su", "ryeon", "gyu", "jeong">>
    }

\* retrieve has reached line 370 with the list fused, no attachment appended
OrderInit ==
    /\ UnitsIdle
    /\ question \in OrderQuestions
    /\ where_filter = extract_query_filters(question)
    /\ fused \in OrderLists
    /\ items = fused
    /\ pc = "finish"
    /\ top_k = MaxTopK
    /\ emb = 1
    /\ mode = "up"
    /\ collection = {}
    /\ snapshot = NoSnapshot
    /\ heap = << >>
    /\ bm25_instance = 0
    /\ all_queries = << >>
    /\ variant_out = << >>
    /\ vector_items = << >>
    /\ bm25_items = << >>
    /\ att_out = NoOutcome
    /\ outcome = "none"
    /\ ThreadsIdle

SpecOrder == OrderInit /\ [][Finish]_vars

\* the article or decree number of a regulation id, read between "je" and
\* "jo" or "ho"; for any other id the first number after the first "_"
OrderNumber(id) ==
    IF NumberedPattern(id, "jo") THEN ParseInt(NumberedGroup(id, "jo"))
    ELSE IF NumberedPattern(id, "ho") THEN ParseInt(NumberedGroup(id, "ho"))
    ELSE FirstNumber(AfterFirstUnderscore(id))

\* the main body before everything else
OrderGroup(item) == IF item.metadata.category = CAT_BODY THEN 0 ELSE 1

\* the position of a year in 1, 2, 3, 4, total, note; any other year is last
OrderYear(year) ==
    LET fixed == <<<<"1">>, <<"2">>, <<"3">>, <<"4">>, YEAR_TOTAL, YEAR_NOTE>>
    IN  IF \E i \in DOMAIN fixed : fixed[i] = year
        THEN CHOOSE i \in DOMAIN fixed : fixed[i] = year
        ELSE Len(fixed) + 1

\* a is not after b / a and b are level, in the order the returned list has
OrderLeq(a, b, regulation) ==
    IF regulation
    THEN \/ OrderGroup(a) < OrderGroup(b)
         \/ OrderGroup(a) = OrderGroup(b) /\ OrderNumber(a.id) <= OrderNumber(b.id)
    ELSE OrderYear(a.metadata.year) <= OrderYear(b.metadata.year)

PositionOf(its, id) == CHOOSE i \in DOMAIN its : its[i].id = id

\* the list before the ordering: the fused list, pruned
BeforeOrdering == pruned(fused, where_filter)

\* C11: the returned list holds the chunks of the list before the ordering;
\* with a regulation chunk among them it ascends by (main body first,
\* number of the id), otherwise by year in the order 1, 2, 3, 4, total,
\* note, others last; chunks that are level keep their earlier order
ReturnedListOrdered ==
    pc = "done" =>
        LET regulation == \E i \in DOMAIN items : items[i].metadata.doc_type = DOC_REGULATION
        IN  /\ Len(items) = Len(BeforeOrdering)
            /\ ListIds(items) = ListIds(BeforeOrdering)
            /\ \A i, j \in DOMAIN items : i < j =>
                  /\ OrderLeq(items[i], items[j], regulation)
                  /\ OrderLeq(items[j], items[i], regulation) =>
                        PositionOf(BeforeOrdering, items[i].id) < PositionOf(BeforeOrdering, items[j].id)

\* C11 witness: a returned list with article 12 moved behind article 3, a
\* decree behind the articles, and nothing pruned
ReturnedRegulationReordered ==
    /\ pc = "done"
    /\ Len(items) = MaxOrderLen
    /\ \E i, j, l \in DOMAIN items :
          /\ i < j /\ j < l
          /\ OrderGroup(items[i]) = 0 /\ OrderNumber(items[i].id) = 3
          /\ OrderGroup(items[j]) = 0 /\ OrderNumber(items[j].id) = 12
          /\ items[l].metadata.category = CAT_ADDENDUM
          /\ PositionOf(fused, items[l].id) < PositionOf(fused, items[j].id)
          /\ PositionOf(fused, items[j].id) < PositionOf(fused, items[i].id)

(***************************************************************************)
(* The direct lookup of retrieve, lines 305-339, on questions that name    *)
(* articles and decrees.                                                   *)
(***************************************************************************)
LookupQuestions == {
    <<"je", "3", "jo">>,
    <<"je", " ", "3", " ", "jo">>,
    <<"je", "4", "jo">>,
    <<"bu", "chig", " ", "je", "5", "ho">>,
    <<"bu", "chig", " ", "je", "6", "ho">>,
    <<"bu", "chig", " ", "je", "3", "jo">>,
    <<"je", "3", "jo", " ", "bu", "chig", " ", "je", "6", "ho">>,
    <<"nae", "gwa", " ", "su", "ryeon", "gyu", "jeong", " ", "je", "3", "jo">>,
    <<"nae", "gwa", " ", "je", "3", "jo">>,
    <<"su", "ryeon", "gyu", "jeong">>,
    <<"su", "ryeon", "gyu", "jeong", " ", "je", "5", "ho">>
    }

LookupInit ==
    /\ UnitsIdle
    /\ collection \in Collections
    /\ snapshot \in {NoSnapshot, SnapshotOf(Corpus)}
    /\ heap = << >>
    /\ bm25_instance = 0
    /\ question \in LookupQuestions
    /\ top_k = 1
    /\ emb = 1
    /\ mode \in Modes
    /\ RetrieveAtStart
    /\ ThreadsIdle

SpecLookup == LookupInit /\ [][RetrieveNext]_vars

ArticleId(q) == DOC_REGULATION \o <<"_", "je">> \o NumberedGroup(q, "jo") \o <<"jo">>

DecreeId(q) ==
    DOC_REGULATION \o <<"_">> \o DOC_ADDENDUM \o <<"_", "je">> \o NumberedGroup(q, "ho") \o <<"ho">>

\* the id built for a question that names a decree of the addendum, or
\* else an article
NamedTarget(q) ==
    IF Contains(q, DOC_ADDENDUM) /\ NumberedPattern(q, "ho") THEN DecreeId(q)
    ELSE IF ArticlePattern(q) THEN ArticleId(q)
    ELSE << >>

\* the same, an article counting only in a question without the addendum word
NamedTargetOutsideAddendum(q) ==
    IF Contains(q, DOC_ADDENDUM)
    THEN (IF NumberedPattern(q, "ho") THEN DecreeId(q) ELSE << >>)
    ELSE IF ArticlePattern(q) THEN ArticleId(q)
    ELSE << >>

\* retrieve has returned without a vector query, a lexical query, a fusion
\* or an attachment completion
ReturnedDirectly ==
    /\ pc = "done"
    /\ outcome = "returned"
    /\ all_queries = << >>
    /\ variant_out = << >>
    /\ vector_items = << >>
    /\ bm25_items = << >>
    /\ fused = << >>
    /\ ~att_out.done
    /\ bm25_instance = 0

\* the lookup of target: attempted when the inferred filter marks a
\* regulation document and there is a target; a chunk held under the id is
\* returned alone and nothing else runs; otherwise the ranked path runs
LookupDecides(target) ==
    LET attempted == target # << >>
                     /\ HasPred(extract_query_filters(question).conds, "doc_type", DOC_REGULATION)
        held == {c \in collection : c.id = target}
    IN  /\ (pc = "done" /\ all_queries = << >>) =>
              /\ attempted /\ held # {}
              /\ ReturnedDirectly
              /\ \E c \in held : items = <<[id |-> target, text |-> c.text, metadata |-> c.metadata,
                                            distance |-> Absent, bm25_score |-> Absent]>>
        /\ (mode = "up" /\ attempted /\ held # {}) =>
              /\ pc \in {"start", "lookup", "done"}
              /\ pc = "done" => ReturnedDirectly
        /\ (pc = "done" /\ (~attempted \/ held = {} \/ mode = "down")) => all_queries # << >>

\* C12 as claimed: a question with an article number or an addendum decree
\* number and a regulation filter is answered by the chunk of the built id
\* alone when the store holds it, and by the ranked path otherwise
DirectLookupOnAnyNumber == LookupDecides(NamedTarget(question))

\* C12: the same with the article lookup attempted only for a question that
\* does not contain the addendum word
DirectLookupShortCircuits == LookupDecides(NamedTargetOutsideAddendum(question))

\* C12 witness: a chunk was returned by the direct lookup
DirectLookupReturned ==
    /\ ReturnedDirectly
    /\ Len(items) = 1
    /\ items[1].id = NamedTargetOutsideAddendum(question)

(***************************************************************************)
(* Attachment completion of retrieve, lines 354-368.                       *)
(***************************************************************************)
\* the filter is an attachment filter or a regulation filter; an absent
\* filter is neither
AttachmentOrRegulationFilter ==
    \E i \in DOMAIN where_filter.conds :
        /\ where_filter.conds[i].key = "doc_type"
        /\ where_filter.conds[i].value \in {DOC_ATTACHMENT, DOC_REGULATION}

\* (specialty predicate if any) AND doc_type = attachment
SupplementaryScope ==
    LET sp == {i \in DOMAIN where_filter.conds : where_filter.conds[i].key = "specialty"}
    IN  IF sp = {} THEN SingleFilter(Pred("doc_type", DOC_ATTACHMENT))
        ELSE AndFilter(<<where_filter.conds[MinOf(sp)], Pred("doc_type", DOC_ATTACHMENT)>>)

\* the hits of the supplementary query that are below the threshold
SupplementaryHits ==
    LET hits == col_query(collection, emb, question, ATTACHMENT_TOP_K, SupplementaryScope)
    IN  Filtered(hits, {i \in DOMAIN hits : hits[i].distance < ATTACHMENT_MAX_DISTANCE})

\* C13: with the store answering every call, the supplementary query is
\* issued exactly when no fused result is an attachment and the filter is
\* neither an attachment nor a regulation filter (an absent filter
\* included); its hits below the threshold are appended to the fused list
CompletionRunsExactlyWhenClaimed ==
    (mode = "up" /\ pc = "finish") =>
        LET claimed == ~HasDocType(fused, DOC_ATTACHMENT) /\ ~AttachmentOrRegulationFilter
        IN  /\ att_out.done <=> claimed
            /\ items = IF claimed THEN fused \o SupplementaryHits ELSE fused

(***************************************************************************)
(* extract_query_filters on its own: questions put together from a         *)
(* specialty part, a year or category part, a document part and an ending. *)
(***************************************************************************)
SpecialtyParts == {
    << >>,
    <<"nae", "gwa">>,
    <<"oe", "gwa">>,
    <<"seong", "hyeong", "oe", "gwa">>,
    <<"nae", "gwa", " ", "seong", "hyeong", "oe", "gwa">>,
    <<"byeong", "ri", "hag">>,
    <<"i", "bi", "in", "hu", " ", "byeong", "ri">>,
    <<"byeong", "ri", "hag", " ", "an", "gwa">>
    }

CurriculumParts == {
    << >>,
    <<"2", "nyeon", "cha">>,
    <<"chong", "gye">>,
    <<"gyo", "gwa", " ", "nae", "yong">>,
    <<"3", " ", "yeon", "cha", " ", "non", "mun", " ", "bi", "go">>,
    <<"jeom", "su">>,
    <<"gi", "jun">>
    }

DocumentParts == {
    << >>,
    <<"su", "ryeon", "gyu", "jeong">>,
    <<"gyu", "jeong">>,
    <<"ja", "gyeog", " ", "in", "jeong">>,
    <<"je", "3", "jo">>,
    <<"bu", "chig">>,
    <<"bu", "chig", " ", "je", "5", "ho">>,
    <<"chong", "chig">>,
    <<"su", "ryeon", "gyu", "jeong", " ", "chong", "chig">>,
    <<"in", "teon", " ", "gyo", "yug", "mog", "pyo">>,
    <<"gyo", "yug", "mog", "pyo">>
    }

Endings == {
    << >>,
    <<"al", "ryeo", "jwo">>,
    <<"eun", "?">>
    }

\* the parts that are not empty, a blank between two of them
RECURSIVE JoinParts(_)
JoinParts(parts) ==
    IF parts = << >> THEN << >>
    ELSE LET rest == JoinParts(Tail(parts))
         IN  IF Head(parts) = << >> THEN rest
             ELSE IF rest = << >> THEN Head(parts)
             ELSE Head(parts) \o <<" ">> \o rest

FilterQuestions ==
    {JoinParts(<<a, b, c, d>>) :
        a \in SpecialtyParts, b \in CurriculumParts, c \in DocumentParts, d \in Endings}

\* retrieve is called on a question; only line 303 is followed
FiltersInit ==
    /\ UnitsIdle
    /\ question \in FilterQuestions
    /\ top_k = 1
    /\ emb = 1
    /\ mode = "up"
    /\ collection = {}
    /\ snapshot = NoSnapshot
    /\ heap = << >>
    /\ bm25_instance = 0
    /\ RetrieveAtStart
    /\ ThreadsIdle

SpecFilters == FiltersInit /\ [][Begin]_vars

\* the filter of the question has been inferred
FilterInferred == pc = "lookup"

\* the predicates of the inferred filter with a given key
PredsOf(k) == {i \in DOMAIN where_filter.conds : where_filter.conds[i].key = k}

\* the specialty names and the alias entries that occur in the question
NamesIn(q) == {i \in DOMAIN SPECIALTIES : Contains(q, SPECIALTIES[i])}

AliasEntriesIn(q) ==
    {i \in DOMAIN SPECIALTY_ALIASES :
        \E a \in DOMAIN SPECIALTY_ALIASES[i].aliases : Contains(q, SPECIALTY_ALIASES[i].aliases[a])}

SpecialtyDetected(q) == NamesIn(q) # {} \/ AliasEntriesIn(q) # {}

\* a predicate that only a regulation filter carries
RegulationPreds ==
    {i \in DOMAIN where_filter.conds :
        \/ where_filter.conds[i] = Pred("doc_type", DOC_REGULATION)
        \/ where_filter.conds[i] = Pred("category", CAT_BODY)
        \/ where_filter.conds[i] = Pred("category", CAT_ADDENDUM)}

\* C14: the filter of a question in which a specialty name or alias is
\* detected has a specialty predicate and no regulation doc_type or
\* sub-category predicate
SpecialtyExcludesRegulation ==
    (FilterInferred /\ SpecialtyDetected(question)) =>
        /\ PredsOf("specialty") # {}
        /\ RegulationPreds = {}

\* the general document types, in the order the source tests their keywords
GeneralDocTypes == <<
    [keyword |-> DOC_ADDENDUM, doc_type |-> DOC_ADDENDUM],
    [keyword |-> DOC_GENERAL_RULE, doc_type |-> DOC_GENERAL_RULE],
    [keyword |-> KW_INTERN, doc_type |-> DOC_INTERN],
    [keyword |-> DOC_EDU_GOAL, doc_type |-> DOC_EDU_GOAL]
    >>

GeneralDocPreds ==
    {i \in DOMAIN where_filter.conds :
        /\ where_filter.conds[i].key = "doc_type"
        /\ \E g \in DOMAIN GeneralDocTypes : where_filter.conds[i].value = GeneralDocTypes[g].doc_type}

\* C15: an inferred filter has at most one doc_type predicate: with the
\* regulation predicate set no general document type is added, and
\* otherwise only the first type whose keyword occurs in the question
OneDocTypePredicate ==
    FilterInferred =>
        /\ Cardinality(PredsOf("doc_type")) <= 1
        /\ HasPred(where_filter.conds, "doc_type", DOC_REGULATION) => GeneralDocPreds = {}
        /\ \A i \in GeneralDocPreds :
              \E g \in DOMAIN GeneralDocTypes :
                  /\ where_filter.conds[i].value = GeneralDocTypes[g].doc_type
                  /\ Contains(question, GeneralDocTypes[g].keyword)
                  /\ \A h \in 1..(g - 1) : ~Contains(question, GeneralDocTypes[h].keyword)

\* C16: the filter of a question with an attachment hint is doc_type =
\* attachment alone, or the one specialty predicate and doc_type =
\* attachment; it has no year, category or other doc_type predicate
AttachmentHintShortCircuits ==
    (FilterInferred /\ \E h \in DOMAIN ATTACHMENT_HINTS : Contains(question, ATTACHMENT_HINTS[h])) =>
        /\ \A i \in DOMAIN where_filter.conds : where_filter.conds[i].key \in {"specialty", "doc_type"}
        /\ \A i \in PredsOf("doc_type") : where_filter.conds[i].value = DOC_ATTACHMENT
        /\ Cardinality(PredsOf("doc_type")) = 1
        /\ Cardinality(PredsOf("specialty")) = IF SpecialtyDetected(question) THEN 1 ELSE 0
        /\ where_filter.form = IF SpecialtyDetected(question) THEN "and" ELSE "single"
        /\ Len(where_filter.conds) = IF SpecialtyDetected(question) THEN 2 ELSE 1

\* C16 witness: a question with a hint, a specialty, a regulation keyword
\* and a general document keyword has its filter
AttachmentHintAmongOthers ==
    /\ FilterInferred
    /\ Contains(question, <<"jeom", "su">>)
    /\ Contains(question, <<"nae", "gwa">>)
    /\ Contains(question, <<"su", "ryeon", "gyu", "jeong">>)
    /\ Contains(question, DOC_GENERAL_RULE)
    /\ where_filter.form = "and"

\* C17: a filter has at most one specialty predicate; when specialty names
\* occur in the question it names one of them that no other occurring name
\* exceeds in length; when none occurs it names the specialty of an alias
\* that occurs, if there is one
LongestSpecialtyNameWins ==
    FilterInferred =>
        /\ Cardinality(PredsOf("specialty")) <= 1
        /\ NamesIn(question) # {} =>
              \E i \in PredsOf("specialty") : \E n \in NamesIn(question) :
                  /\ where_filter.conds[i].value = SPECIALTIES[n]
                  /\ \A o \in NamesIn(question) : Len(SPECIALTIES[o]) <= Len(SPECIALTIES[n])
        /\ NamesIn(question) = {} =>
              /\ PredsOf("specialty") # {} <=> AliasEntriesIn(question) # {}
              /\ \A i \in PredsOf("specialty") : \E a \in AliasEntriesIn(question) :
                    where_filter.conds[i].value = SPECIALTY_ALIASES[a].spec

\* C17 witness: the question holds a longer name that contains a shorter
\* one and a second, shorter name, and the filter names the longer
LongerNameChosen ==
    /\ FilterInferred
    /\ Contains(question, <<"seong", "hyeong", "oe", "gwa">>)
    /\ Contains(question, <<"nae", "gwa">>)
    /\ HasPred(where_filter.conds, "specialty", <<"seong", "hyeong", "oe", "gwa">>)

(***************************************************************************)
(* _generate_query_variations on its own: a question and n, called twice.  *)
(***************************************************************************)
MaxVariations == 3

NumCalls == 2

VariationQuestions ==
    FilterQuestions \cup {
        << >>,
        <<"nyeon", "cha", " ", "yeon", "cha">>,
        <<"su", "ryeon", " ", "su", "ryeon">>,
        <<" ", "al", "ryeo", "jwo">>,
        <<"mwo", "ya", "?">>,
        <<"jeon", "gong", "ui", " ", "su", "ryeon", "byeong", "won", "i", "?">>
        }

VariationsInit ==
    /\ n_arg \in 0..MaxVariations
    /\ variations = << >>
    /\ df = << >>
    /\ merged_rows = << >>
    /\ chunk_df = << >>
    /\ md_text = << >>
    /\ table_chunks = << >>
    /\ calls = 0
    /\ question \in VariationQuestions
    /\ top_k = 1
    /\ collection = {}
    /\ snapshot = NoSnapshot
    /\ heap = << >>
    /\ bm25_instance = 0
    /\ RetrieveIdle
    /\ ThreadsIdle

\* one call of _generate_query_variations(question, n)
Expand ==
    /\ Len(variations) < NumCalls
    /\ variations' = Append(variations, generate_query_variations(question, n_arg))
    /\ UNCHANGED <<sharedVars, inputVars, n_arg, df, merged_rows, chunk_df, md_text, calls, table_chunks,
                   threadVars, retrieveVars>>

SpecVariations == VariationsInit /\ [][Expand]_vars

\* C18: a call returns at most n variants, none of them the question, no
\* two of them equal, and every call returns what the first returned
VariationsDistinctAndBounded ==
    \A c \in DOMAIN variations :
        /\ Len(variations[c]) <= n_arg
        /\ \A i \in DOMAIN variations[c] : variations[c][i] # question
        /\ \A i, j \in DOMAIN variations[c] : variations[c][i] = variations[c][j] => i = j
        /\ variations[c] = variations[1]

\* C18 witness: two calls with n = 2 on a question with two synonym terms
\* and a reformulation pattern, a third candidate left out
VariationsCutToN ==
    /\ Len(variations) = NumCalls
    /\ n_arg = 2
    /\ Len(variations[1]) = 2
    /\ Cardinality(SynHits(question)) >= 2
    /\ reformulated(question) # question

(***************************************************************************)
(* Tables (app.py process_table, rag/chunker.py chunk_curriculum_table).   *)
(* A table is the sequence of its data rows, a row the three cells the     *)
(* source reads: year, category, content.                                  *)
(***************************************************************************)
Row(y, c, t) == [year |-> y, category |-> c, content |-> t]

\* Python: s.strip() == ""
Blank(cell) == Strip(cell) = << >>

\* Series.replace("", NA).ffill().fillna("") at row i: the nearest value
\* at or before i that is not "", or "" when there is none
FFillAt(cells, i) ==
    LET from == {j \in 1..i : cells[j] # << >>}
    IN  IF from = {} THEN << >> ELSE cells[CHOOSE j \in from : \A l \in from : l <= j]

\* the year column forward filled (app.py line 63, chunker.py line 112)
ffill_year(rows) ==
    [i \in DOMAIN rows |->
        [rows[i] EXCEPT !.year = FFillAt([j \in DOMAIN rows |-> rows[j].year], i)]]

\* app.py lines 66-76: a row with blank year and category and a content is
\* added to the last row kept, or dropped when no row was kept
RECURSIVE merge_rows(_, _)
merge_rows(rows, kept) ==
    IF rows = << >> THEN kept
    ELSE LET row == Head(rows)
         IN  IF Blank(row.year) /\ Blank(row.category) /\ ~Blank(row.content)
             THEN IF kept # << >>
                  THEN merge_rows(Tail(rows),
                          [kept EXCEPT ![Len(kept)].content = @ \o <<"\n">> \o row.content])
                  ELSE merge_rows(Tail(rows), kept)
             ELSE merge_rows(Tail(rows), Append(kept, row))

\* process_table on the data rows: the forward fill, then the merge
process_table(rows) == merge_rows(ffill_year(rows), << >>)

\* chunker.py line 114: groupby(col_year)[col_cat].ffill().fillna(""): the
\* nearest category at or before i among the rows with the year of row i
ffill_category(rows) ==
    [i \in DOMAIN rows |->
        LET from == {j \in 1..i : rows[j].year = rows[i].year /\ rows[j].category # << >>}
        IN  [rows[i] EXCEPT !.category =
                IF from = {} THEN << >>
                ELSE rows[CHOOSE j \in from : \A l \in from : l <= j].category]]

\* chunker.py lines 112-114
forward_fill(rows) == ffill_category(ffill_year(rows))

MaxRows == 3

YearCells == {<< >>, <<"1">>, <<"2">>}

CategoryCells == {<< >>, <<"gyo", "gwa", "nae", "yong">>, <<"non", "mun", "je", "chul">>}

ContentCells == {<< >>, <<"su", "sul">>, <<"jin", "ryo">>}

TableRows == {Row(y, c, t) : y \in YearCells, c \in CategoryCells, t \in ContentCells}

Tables == UNION {[1..n -> TableRows] : n \in 1..MaxRows}

TableInit ==
    /\ df \in Tables
    /\ merged_rows = << >>
    /\ chunk_df = << >>
    /\ md_text = << >>
    /\ table_chunks = << >>
    /\ calls = 0
    /\ n_arg = 0
    /\ variations = << >>
    /\ question = << >>
    /\ top_k = 1
    /\ collection = {}
    /\ snapshot = NoSnapshot
    /\ heap = << >>
    /\ bm25_instance = 0
    /\ emb = 1
    /\ mode = "up"
    /\ pc = "process_table"
    /\ where_filter = NoFilter
    /\ all_queries = << >>
    /\ variant_out = << >>
    /\ vector_items = << >>
    /\ bm25_items = << >>
    /\ fused = << >>
    /\ att_out = NoOutcome
    /\ items = << >>
    /\ outcome = "none"
    /\ ThreadsIdle

\* process_table(df) on the rows of an extracted table
ProcessTable ==
    /\ pc = "process_table"
    /\ merged_rows' = process_table(df)
    /\ pc' = "forward_fill"
    /\ UNCHANGED <<sharedVars, inputVars, n_arg, variations, df, chunk_df, md_text, calls, table_chunks,
                   threadVars,
                   where_filter, all_queries, variant_out, vector_items, bm25_items, fused,
                   att_out, items, outcome>>

\* chunk_curriculum_table, lines 112-114, on the same rows as a parsed table
ForwardFill ==
    /\ pc = "forward_fill"
    /\ chunk_df' = forward_fill(df)
    /\ pc' = "grouping"
    /\ UNCHANGED <<sharedVars, inputVars, n_arg, variations, df, merged_rows, md_text, calls,
                   table_chunks, threadVars,
                   where_filter, all_queries, variant_out, vector_items, bm25_items, fused,
                   att_out, items, outcome>>

TableNext == ProcessTable \/ ForwardFill

SpecTable == TableInit /\ [][TableNext]_vars

\* the rows from i back to j have one effective year: j is in the
\* contiguous year group of i
SameYearRun(j, i) == \A l \in j..i : chunk_df[l].year = chunk_df[i].year

\* C19: after the forward fill a row with an empty year has the nearest
\* preceding year that is not empty; a row with an empty category has the
\* nearest preceding category that is not empty among the rows of its own
\* contiguous year group, and stays empty when that group has none before it
FillStaysInYearGroup ==
    pc = "grouping" =>
        /\ Len(chunk_df) = Len(df)
        /\ \A i \in DOMAIN df :
              LET years == {j \in 1..i : df[j].year # << >>}
                  cats == {j \in 1..i : df[j].category # << >> /\ SameYearRun(j, i)}
              IN  /\ chunk_df[i].content = df[i].content
                  /\ chunk_df[i].year =
                        IF years = {} THEN << >>
                        ELSE df[CHOOSE j \in years : \A l \in years : l <= j].year
                  /\ chunk_df[i].category =
                        IF cats = {} THEN << >>
                        ELSE df[CHOOSE j \in cats : \A l \in cats : l <= j].category

\* a row with blank year and category cells and a content
Continuation(i) == Blank(df[i].year) /\ Blank(df[i].category) /\ ~Blank(df[i].content)

\* the rows that are not continuations, in table order
EmittedRows == SelectIdx(Len(df), {i \in DOMAIN df : ~Continuation(i)}, 1)

\* the contents of rows i..j, a newline between two of them
RECURSIVE JoinedContent(_, _)
JoinedContent(i, j) ==
    IF i = j THEN df[i].content ELSE JoinedContent(i, j - 1) \o <<"\n">> \o df[j].content

\* C20: process_table emits one row for each row that is not a
\* continuation; its content is the row's content followed, newline
\* separated, by the contents of the continuation rows right after it; the
\* content of every continuation row is in an emitted row
ContinuationsMergedNotEmitted ==
    pc \in {"forward_fill", "grouping"} =>
        /\ Len(merged_rows) = Len(EmittedRows)
        /\ \A k \in DOMAIN merged_rows : k \in DOMAIN EmittedRows =>
              LET last == IF k < Len(EmittedRows) THEN EmittedRows[k + 1] - 1 ELSE Len(df)
              IN  merged_rows[k].content = JoinedContent(EmittedRows[k], last)
        /\ \A i \in DOMAIN df : Continuation(i) =>
              \E k \in DOMAIN merged_rows : Contains(merged_rows[k].content, df[i].content)

(***************************************************************************)
(* chunk_curriculum_table(file_path, specialty, specialty_id) of           *)
(* rag/chunker.py, from the lines of the file to the list it returns.  A   *)
(* line is a sequence of characters, "|" the bar of a markdown table and   *)
(* "\n" the line break inside a chunk text.                                *)
(***************************************************************************)
\* Python: line.split("|"), the parts between the bars
RECURSIVE SplitFrom(_, _, _)
SplitFrom(line, i, part) ==
    IF i > Len(line) THEN <<part>>
    ELSE IF line[i] = "|" THEN <<part>> \o SplitFrom(line, i + 1, << >>)
    ELSE SplitFrom(line, i + 1, Append(part, line[i]))

\* lines 17 and 20: [c.strip() for c in line.split("|")[1:-1]]
cells_of(line) ==
    LET parts == SplitFrom(line, 1, << >>)
    IN  [i \in 1..(Len(parts) - 2) |-> Strip(parts[i + 1])]

\* line 14: the lines that start with a bar
table_lines(text) == SelectSeq(text, LAMBDA l : l # << >> /\ l[1] = "|")

\* parse_md_table: None under three table lines, else the header's names
\* and the rows that have as many cells as the header
parse_md_table(text) ==
    LET lines == table_lines(text)
        header == cells_of(lines[1])
        data == [i \in 1..(Len(lines) - 2) |-> cells_of(lines[i + 2])]
    IN  IF Len(lines) < 3 THEN [none |-> TRUE, columns |-> << >>, rows |-> << >>]
        ELSE [none |-> FALSE, columns |-> header,
              rows |-> SelectSeq(data, LAMBDA cells : Len(cells) = Len(header))]

\* DataFrame.empty: no row or no column
empty(frame) == frame.rows = << >> \/ frame.columns = << >>

\* line 109 reads the first three columns
NUM_COLUMNS == 3

\* the rows as the three cells lines 112-192 read
rows_of(frame) == [i \in DOMAIN frame.rows |-> Row(frame.rows[i][1], frame.rows[i][2], frame.rows[i][3])]

\* Python: raw.replace(" ", "").strip()
normalize_category(raw) == Strip(ReplaceAll(raw, <<" ">>, << >>))

\* groupby(keys, sort=False): the row of the first appearance of each key
FirstOfKey(keys) ==
    SelectIdx(Len(keys), {i \in DOMAIN keys : \A j \in 1..(i - 1) : keys[j] # keys[i]}, 1)

\* line 125
is_section_tag(line) ==
    LET stripped == Strip(line)
    IN  stripped # << >> /\ stripped[1] = "<" /\ stripped[Len(stripped)] = ">"

\* lines 122-132: a blank line before a section tag that is not first and
\* after one that is not last
RECURSIVE content_parts(_, _, _)
content_parts(lines, i, parts) ==
    IF i > Len(lines) THEN parts
    ELSE LET tag == is_section_tag(lines[i])
             before == IF tag /\ parts # << >> THEN Append(parts, << >>) ELSE parts
             with == Append(before, lines[i])
             after == IF tag /\ i < Len(lines) THEN Append(with, << >>) ELSE with
         IN  content_parts(lines, i + 1, after)

\* Python: "\n".join(parts)
RECURSIVE JoinLines(_)
JoinLines(parts) ==
    IF parts = << >> THEN << >>
    ELSE IF Len(parts) = 1 THEN parts[1]
    ELSE parts[1] \o <<"\n">> \o JoinLines(Tail(parts))

\* lines 119-133: the content of the group of row i
group_content(rows, i) ==
    LET group == SelectSeq(rows, LAMBDA r : r.year = rows[i].year /\ r.category = rows[i].category)
        lines == SelectSeq([j \in DOMAIN group |-> group[j].content], LAMBDA l : ~Blank(l))
    IN  JoinLines(content_parts(lines, 1, << >>))

\* lines 116-157: one chunk per (year, category) group with a content, in
\* the order the groups first appear
year_category_chunks(rows, specialty) ==
    LET firsts == FirstOfKey([i \in DOMAIN rows |-> <<rows[i].year, rows[i].category>>])
        groups == SelectSeq(firsts, LAMBDA i : ~Blank(group_content(rows, i)))
    IN  [k \in DOMAIN groups |->
            YearCategoryChunk(specialty, rows[groups[k]].year,
                              normalize_category(rows[groups[k]].category),
                              group_content(rows, groups[k]))]

\* Python: text.split("\n", 1)[0]
header_line(text) ==
    IF Contains(text, <<"\n">>) THEN SubSeq(text, 1, Find(text, <<"\n">>) - 1) ELSE text

\* Python: text.split("\n", 1)[-1]
body_text(text) ==
    IF Contains(text, <<"\n">>) THEN SubSeq(text, Find(text, <<"\n">>) + 1, Len(text)) ELSE text

\* line 163: a longer body is not read as a reference
REF_MAX_LEN == 30

\* the regular expression of line 168 matches at i:
\* (\d)년차와\s*(?:동일|공통)
SameAsYearAt(body, i) ==
    /\ i \in DOMAIN body
    /\ body[i] \in Digits
    /\ IsSubAt(body, <<"nyeon", "cha", "wa">>, i + 1)
    /\ LET j == SkipSet(body, i + 4, Whitespace)
       IN  IsSubAt(body, <<"dong", "il">>, j) \/ IsSubAt(body, <<"gong", "tong">>, j)

\* re.search of line 168: group 1 of the first match, << >> without one
same_as_year(body) ==
    LET at == {i \in DOMAIN body : SameAsYearAt(body, i)}
    IN  IF at = {} THEN << >> ELSE <<body[CHOOSE i \in at : \A j \in at : i <= j]>>

\* re.search of line 177: 총계.*참조, both on one line
total_reference(body) ==
    \E i, j \in DOMAIN body :
        /\ IsSubAt(body, YEAR_TOTAL, i)
        /\ i + Len(YEAR_TOTAL) <= j
        /\ IsSubAt(body, <<"cham", "jo">>, j)
        /\ \A l \in i..j : body[l] # "\n"

\* line 160, chunk_map[id]: the last chunk of the list with the id, 0 when
\* the id is not in the map
chunk_map(list, id) ==
    LET at == {i \in DOMAIN list : list[i].id = id}
    IN  IF at = {} THEN 0 ELSE CHOOSE i \in at : \A j \in at : j <= i

\* lines 170 and 178: the id a reference of chunk names, << >> when the
\* body of chunk is not read as a reference
ref_id(chunk, specialty) ==
    LET body == Strip(body_text(chunk.text))
    IN  IF Len(body) > REF_MAX_LEN THEN << >>
        ELSE IF same_as_year(body) # << >>
        THEN specialty \o <<"_">> \o same_as_year(body) \o <<"_">> \o chunk.metadata.category
        ELSE IF total_reference(body)
        THEN specialty \o <<"_">> \o YEAR_TOTAL \o <<"_">> \o chunk.metadata.category
        ELSE << >>

\* lines 162-181, one round of the loop: the text of chunk i of list
resolved_text(list, i, specialty) ==
    LET id == ref_id(list[i], specialty)
        ref == chunk_map(list, id)
    IN  IF id # << >> /\ ref # 0
        THEN header_line(list[i].text) \o <<"\n">> \o body_text(list[ref].text)
        ELSE list[i].text

\* lines 161-181: the loop from chunk i on; a chunk reads the text the
\* chunk it names has when its own round runs
RECURSIVE resolve_from(_, _, _)
resolve_from(list, i, specialty) ==
    IF i > Len(list) THEN list
    ELSE resolve_from([list EXCEPT ![i].text = resolved_text(list, i, specialty)],
                      i + 1, specialty)

\* lines 159-181
resolve_references(list, specialty) == resolve_from(list, 1, specialty)

\* a year summary chunk, lines 195-209
YearSummaryChunk(specialty, year, lines) ==
    Chunk(specialty \o <<"_">> \o year \o <<"_">> \o CAT_ALL,
          <<"[">> \o specialty \o <<"]", " ">> \o year
              \o (IF year # YEAR_TOTAL THEN <<"nyeon", "cha">> ELSE << >>)
              \o <<" ">> \o CAT_ALL \o <<":", "\n">> \o JoinLines(lines),
          Meta(DOC_YEARLY, specialty, year, CAT_ALL))

\* lines 187-192: the lines of the summary of the year of row i
summary_lines(rows, i) ==
    LET group == SelectSeq(rows, LAMBDA r : r.year = rows[i].year)
        kept == SelectSeq(group, LAMBDA r : Strip(r.content) # << >>)
    IN  [j \in DOMAIN kept |->
            IF normalize_category(kept[j].category) # << >>
            THEN <<"[">> \o normalize_category(kept[j].category) \o <<"]", " ">> \o Strip(kept[j].content)
            ELSE Strip(kept[j].content)]

\* lines 183-210: one summary per year with a content, none for the notes
year_summary_chunks(rows, specialty) ==
    LET firsts == FirstOfKey([i \in DOMAIN rows |-> rows[i].year])
        years == SelectSeq(firsts, LAMBDA i : rows[i].year # YEAR_NOTE /\ summary_lines(rows, i) # << >>)
    IN  [k \in DOMAIN years |->
            YearSummaryChunk(specialty, rows[years[k]].year, summary_lines(rows, years[k]))]

\* the specialty the folder of the file names (generate_all_chunks, line 240)
TableSpecialty == <<"nae", "gwa">>

\* chunk_curriculum_table, lines 104-109: no table or an empty one returns
\* the empty list; line 109 raises IndexError under three columns
ParseMdTable ==
    /\ pc = "parse_md_table"
    /\ LET frame == parse_md_table(md_text)
       IN  IF frame.none \/ empty(frame)
           THEN pc' = "returned" /\ UNCHANGED df
           ELSE IF Len(frame.columns) < NUM_COLUMNS
           THEN pc' = "raised" /\ UNCHANGED df
           ELSE pc' = "forward_fill" /\ df' = rows_of(frame)
    /\ UNCHANGED <<sharedVars, inputVars, n_arg, variations, merged_rows, chunk_df, md_text, calls,
                   table_chunks, threadVars, where_filter, all_queries, variant_out,
                   vector_items, bm25_items, fused, att_out, items, outcome>>

\* lines 116-157
Grouping ==
    /\ pc = "grouping"
    /\ table_chunks' = year_category_chunks(chunk_df, TableSpecialty)
    /\ pc' = "resolve"
    /\ UNCHANGED <<sharedVars, inputVars, n_arg, variations, df, merged_rows, chunk_df, md_text, calls,
                   threadVars, where_filter, all_queries, variant_out, vector_items,
                   bm25_items, fused, att_out, items, outcome>>

\* lines 159-181
Resolve ==
    /\ pc = "resolve"
    /\ table_chunks' = resolve_references(table_chunks, TableSpecialty)
    /\ pc' = "summary"
    /\ UNCHANGED <<sharedVars, inputVars, n_arg, variations, df, merged_rows, chunk_df, md_text, calls,
                   threadVars, where_filter, all_queries, variant_out, vector_items,
                   bm25_items, fused, att_out, items, outcome>>

\* lines 183-212
Summaries ==
    /\ pc = "summary"
    /\ table_chunks' = table_chunks \o year_summary_chunks(chunk_df, TableSpecialty)
    /\ pc' = "returned"
    /\ UNCHANGED <<sharedVars, inputVars, n_arg, variations, df, merged_rows, chunk_df, md_text, calls,
                   threadVars, where_filter, all_queries, variant_out, vector_items,
                   bm25_items, fused, att_out, items, outcome>>

\* a line of a markdown table: a bar, then each cell between blanks and a bar
RECURSIVE MdLine(_)
MdLine(cells) ==
    IF cells = << >> THEN <<"|">>
    ELSE MdLine(SubSeq(cells, 1, Len(cells) - 1)) \o <<" ">> \o cells[Len(cells)] \o <<" ", "|">>

\* the names of the first n columns: year, category, content, then others
HeaderCells(n) ==
    [i \in 1..n |->
        IF i = 1 THEN <<"yeon", "cha">>
        ELSE IF i = 2 THEN <<"gu", "bun">>
        ELSE IF i = 3 THEN <<"nae", "yong">>
        ELSE <<"bi", "go", ToString(i)>>]

\* the text of a table of n columns with the rows given as lists of cells
MdTable(n, rows) ==
    <<MdLine(HeaderCells(n)), MdLine([i \in 1..n |-> <<"-", "-", "-">>])>>
        \o [i \in DOMAIN rows |-> MdLine(rows[i])]

\* a body of n characters that starts with a reference to year 1
LongReference(n) == <<"1", "nyeon", "cha", "wa", " ", "dong", "il">> \o [i \in 1..(n - 7) |-> "su"]

\* the contents of a cell: a content, references to a year and to the
\* total, a reference in a body longer than REF_MAX_LEN
ReferenceCells == {
    <<"su", "sul">>,
    <<"1", "nyeon", "cha", "wa", " ", "dong", "il">>,
    <<"2", "nyeon", "cha", "wa", "gong", "tong">>,
    <<"chong", "gye", " ", "hang", "mog", " ", "cham", "jo">>,
    LongReference(REF_MAX_LEN + 1)
    }

ReferenceYears == {<<"1">>, <<"2">>, YEAR_TOTAL}

\* the rows of the tables: one category with every content, a second
\* category with a plain content
ReferenceRows ==
    {<<y, <<"gyo", "gwa", "nae", "yong">>, t>> : y \in ReferenceYears, t \in ReferenceCells}
        \cup {<<y, <<"non", "mun", "je", "chul">>, <<"jin", "ryo">>>> : y \in ReferenceYears}

MaxTableRows == 3

\* the well-formed files of n rows of three cells
ReferenceTexts(n) == {MdTable(NUM_COLUMNS, rows) : rows \in [1..n -> ReferenceRows]}

\* a row of n cells
CellsOfCount(n) ==
    [i \in 1..n |->
        IF i = 1 THEN <<"1">>
        ELSE IF i = 2 THEN <<"gyo", "gwa", "nae", "yong">>
        ELSE IF i = 3 THEN <<"su", "sul">>
        ELSE <<"bi", "go">>]

MaxColumns == 4

MaxMalformedRows == 2

\* the other files: a header of h columns and k rows of 0..MaxColumns
\* cells each
MalformedTexts(h, k) ==
    {MdTable(h, [i \in 1..k |-> CellsOfCount(c[i])]) : c \in [1..k -> 0..MaxColumns]}

\* texts of fewer than three table lines
ShortTexts ==
    {<< >>, <<<<"#", " ", "nae", "gwa">>>>,
     <<<<"#", " ", "nae", "gwa">>, MdLine(HeaderCells(NUM_COLUMNS))>>}

ChunkerInit ==
    /\ \/ \E n \in 1..MaxTableRows : md_text \in ReferenceTexts(n)
       \/ \E h \in 0..MaxColumns, k \in 0..MaxMalformedRows : md_text \in MalformedTexts(h, k)
       \/ md_text \in ShortTexts
    /\ table_chunks = << >>
    /\ calls = 0
    /\ df = << >>
    /\ merged_rows = << >>
    /\ chunk_df = << >>
    /\ n_arg = 0
    /\ variations = << >>
    /\ question = << >>
    /\ top_k = 1
    /\ collection = {}
    /\ snapshot = NoSnapshot
    /\ heap = << >>
    /\ bm25_instance = 0
    /\ emb = 1
    /\ mode = "up"
    /\ pc = "parse_md_table"
    /\ where_filter = NoFilter
    /\ all_queries = << >>
    /\ variant_out = << >>
    /\ vector_items = << >>
    /\ bm25_items = << >>
    /\ fused = << >>
    /\ att_out = NoOutcome
    /\ items = << >>
    /\ outcome = "none"
    /\ ThreadsIdle

ChunkerNext == ParseMdTable \/ ForwardFill \/ Grouping \/ Resolve \/ Summaries

SpecChunker == ChunkerInit /\ [][ChunkerNext]_vars

\* the year-category chunks as lines 116-157 built them
BuiltChunks == year_category_chunks(chunk_df, TableSpecialty)

\* C21: the resolution pass applied to the list it has produced changes no
\* chunk text
ResolutionIdempotent ==
    pc = "summary" => resolve_references(table_chunks, TableSpecialty) = table_chunks

\* chunk i as built is a reference: a body of at most REF_MAX_LEN
\* characters that matches one of the two patterns
IsReference(i) ==
    LET body == Strip(body_text(BuiltChunks[i].text))
    IN  /\ Len(body) <= REF_MAX_LEN
        /\ same_as_year(body) # << >> \/ total_reference(body)

\* the id the reference of chunk i names: the year of the pattern, or the
\* total, with the category of the chunk
TargetId(i) ==
    LET body == Strip(body_text(BuiltChunks[i].text))
    IN  TableSpecialty \o <<"_">>
            \o (IF same_as_year(body) # << >> THEN same_as_year(body) ELSE YEAR_TOTAL)
            \o <<"_">> \o BuiltChunks[i].metadata.category

\* C22: in the list chunk_curriculum_table returns, a reference whose
\* target id is in the document has its own header line followed by the
\* body of the chunk with the target id; a reference whose target id is not
\* in the document keeps the text it was built with
ReferencesResolved ==
    pc \in {"summary", "returned"} =>
        \A i \in DOMAIN BuiltChunks : IsReference(i) =>
            LET targets == {j \in DOMAIN BuiltChunks : BuiltChunks[j].id = TargetId(i)}
            IN  /\ \A j \in targets :
                      table_chunks[i].text =
                          header_line(BuiltChunks[i].text) \o <<"\n">> \o body_text(table_chunks[j].text)
                /\ targets = {} => table_chunks[i].text = BuiltChunks[i].text

\* the rows of the file that have as many cells as its header
WellFormedRows ==
    LET lines == table_lines(md_text)
    IN  {i \in 3..Len(lines) : Len(cells_of(lines[i])) = Len(cells_of(lines[1]))}

\* C23: chunk_curriculum_table raises on no file; a file with fewer than
\* three table lines or without a row of the header's cell count yields the
\* empty list
MalformedTableYieldsNoError ==
    /\ pc # "raised"
    /\ pc = "returned" /\ (Len(table_lines(md_text)) < 3 \/ WellFormedRows = {}) =>
          table_chunks = << >>

(***************************************************************************)
(* index_data.py main: the chunks of the file are generated, then indexed  *)
(* by index_chunks or by rebuild_index; each run is a new process on the   *)
(* store and the snapshot the run before has left.                         *)
(***************************************************************************)
\* the ids of a batch are all different
unique_ids(batch) == \A i, j \in DOMAIN batch : batch[i].id = batch[j].id => i = j

\* lines 20 and 29-33
MainIndex(rebuild) ==
    /\ pc = "returned"
    /\ ipc = "idle"
    /\ wchunks' = table_chunks
    /\ ipc' = IF rebuild THEN "delete" ELSE "get"
    /\ pc' = "indexing"
    /\ UNCHANGED <<sharedVars, inputVars, unitVars, storeVars, ioff, wpc, wref, readerVars,
                   where_filter, all_queries, variant_out, vector_items, bm25_items, fused,
                   att_out, items, outcome>>

\* line 59 on a batch that repeats an id: the store keeps the last entry
\* (IUpsert) or rejects the batch with an error, by its version
IUpsertRaise ==
    /\ ipc = "upsert"
    /\ ioff < Len(wchunks)
    /\ ~unique_ids(SubSeq(wchunks, ioff + 1, Min(ioff + batch_size, Len(wchunks))))
    /\ ipc' = "raised"
    /\ UNCHANGED <<sharedVars, inputVars, unitVars, storeVars, ioff, wpc, wchunks, wref,
                   readerVars, retrieveVars>>

NumRuns == 2

\* a table of three columns with the rows given
IngestTable(rows) == MdTable(NUM_COLUMNS, rows)

\* the files of the runs: two years, one of them alone, the other alone,
\* two categories that differ in a blank, a category named as the year
\* summary is, and a file without a table
IngestTexts == {
    IngestTable(<<
        <<<<"1">>, <<"gyo", "gwa", "nae", "yong">>, <<"su", "sul">>>>,
        <<<<"2">>, <<"gyo", "gwa", "nae", "yong">>, <<"jin", "ryo">>>>
        >>),
    IngestTable(<<
        <<<<"1">>, <<"gyo", "gwa", "nae", "yong">>, <<"su", "sul">>>>
        >>),
    IngestTable(<<
        <<<<"2">>, <<"gyo", "gwa", "nae", "yong">>, <<"jin", "ryo">>>>
        >>),
    IngestTable(<<
        <<<<"1">>, <<"gyo", "gwa", " ", "nae", "yong">>, <<"su", "sul">>>>,
        <<<<"1">>, <<"gyo", "gwa", "nae", "yong">>, <<"jin", "ryo">>>>
        >>),
    IngestTable(<<
        <<<<"1">>, CAT_ALL, <<"su", "sul">>>>
        >>),
    <<<<"#", " ", "nae", "gwa">>>>
    }

\* the next run of index_data.py, a new process: its module globals are
\* None, the store and the snapshot are as the run before left them
MainAgain ==
    /\ ipc = "done"
    /\ calls < NumRuns
    /\ calls' = calls + 1
    /\ md_text' \in IngestTexts
    /\ pc' = "parse_md_table"
    /\ df' = << >>
    /\ chunk_df' = << >>
    /\ table_chunks' = << >>
    /\ ipc' = "idle"
    /\ ioff' = 0
    /\ wpc' = At("idle")
    /\ wchunks' = << >>
    /\ wref' = 0
    /\ col_cache' = 0
    /\ bm25_instance' = 0
    /\ heap' = << >>
    /\ UNCHANGED <<collection, snapshot, inputVars, n_arg, variations, merged_rows, col_exists,
                   col_gen, readerVars, where_filter, all_queries, variant_out, vector_items,
                   bm25_items, fused, att_out, items, outcome>>

\* the first run, on a store without the collection and without a snapshot
IngestInit ==
    /\ md_text \in IngestTexts
    /\ calls = 1
    /\ table_chunks = << >>
    /\ df = << >>
    /\ merged_rows = << >>
    /\ chunk_df = << >>
    /\ n_arg = 0
    /\ variations = << >>
    /\ question = << >>
    /\ top_k = 1
    /\ collection = {}
    /\ snapshot = NoSnapshot
    /\ heap = << >>
    /\ bm25_instance = 0
    /\ emb = 1
    /\ mode = "up"
    /\ pc = "parse_md_table"
    /\ where_filter = NoFilter
    /\ all_queries = << >>
    /\ variant_out = << >>
    /\ vector_items = << >>
    /\ bm25_items = << >>
    /\ fused = << >>
    /\ att_out = NoOutcome
    /\ items = << >>
    /\ outcome = "none"
    /\ col_exists = FALSE
    /\ col_gen = 0
    /\ col_cache = 0
    /\ ipc = "idle"
    /\ ioff = 0
    /\ wpc = At("idle")
    /\ wchunks = << >>
    /\ wref = 0
    /\ rpc = [r \in Readers |-> At("idle")]
    /\ rref = [r \in Readers |-> 0]
    /\ rdata = [r \in Readers |-> pickled(NewBM25Index)]
    /\ rans = [r \in Readers |-> NoOutcome]
    /\ vpc = [r \in Readers |-> At("idle")]
    /\ vobs = [r \in Readers |-> NoOutcome]

IngestNext ==
    \/ ParseMdTable
    \/ ForwardFill
    \/ Grouping
    \/ Resolve
    \/ Summaries
    \/ \E rebuild \in BOOLEAN : MainIndex(rebuild)
    \/ IDelete
    \/ IReset
    \/ IGet
    \/ IUpsert
    \/ IUpsertRaise
    \/ WNew
    \/ WBind
    \/ \E n \in 1..NUM_FIELDS : WBuild(n)
    \/ WSave
    \/ ICount
    \/ MainAgain

SpecIngest == IngestInit /\ [][IngestNext]_vars

\* the ids the store holds
StoreIds == {c.id : c \in collection}

\* the id sequence of the active lexical index: the instance the process
\* has built
LexicalIds == heap[bm25_instance].doc_ids

\* C24: indexing ends without an error, and once index_chunks has returned
\* no id occurs twice in the id sequence of the lexical index or in the
\* store, and the store holds for each id the last chunk of the list with it
IndexedIdsUnique ==
    /\ ipc # "raised"
    /\ ipc = "done" =>
          /\ \A i, j \in DOMAIN LexicalIds : LexicalIds[i] = LexicalIds[j] => i = j
          /\ \A c, d \in collection : c.id = d.id => c = d
          /\ \A i \in DOMAIN wchunks :
                (\A j \in DOMAIN wchunks : j > i => wchunks[j].id # wchunks[i].id) =>
                    wchunks[i] \in collection

\* C26: once a call of index_chunks or rebuild_index has returned, the ids
\* of the store are the ids of the active lexical index and the ids of the
\* list passed in
StoreAndLexicalIdsAgree ==
    ipc = "done" =>
        /\ StoreIds = SeqToSet(LexicalIds)
        /\ StoreIds = {wchunks[i].id : i \in DOMAIN wchunks}

(***************************************************************************)
(* _multi_query under every order of completion of its worker threads      *)
(* (SpecRetrieve: RunVariant(i) is taken in any order).                     *)
(***************************************************************************)
\* C25: the merge of _multi_query runs when every query of all_queries has
\* finished, and the merged list is the merge of the results taken in the
\* order of all_queries, each the answer of the store to its query: it is
\* the same whatever the order the worker threads finished in
JoinAllThenMerge ==
    /\ pc \in {"lexical", "attach", "finish"} \/ (pc = "done" /\ all_queries # << >>) =>
          \A i \in DOMAIN all_queries : variant_out[i].done
    /\ pc \in {"lexical", "attach", "finish"} =>
          /\ vector_items =
                merge_results([i \in DOMAIN all_queries |-> variant_out[i].items], fetch_k)
          /\ mode = "up" =>
                \A i \in DOMAIN all_queries :
                    variant_out[i] = query(collection, emb, all_queries[i], fetch_k,
                                           where_filter, FALSE, FALSE)

\* C25 witness: three queries have run and been merged, and no two of them
\* had the same answer
JoinedThreeVariants ==
    /\ pc = "lexical"
    /\ Len(all_queries) = MULTI_QUERY_COUNT
    /\ \A i, j \in DOMAIN variant_out : i # j => variant_out[i].items # variant_out[j].items
    /\ vector_items # << >>

\* C27: no query of the vector side is repeated without the filter, and
\* when retrieve returns through the ranked path with an inferred filter,
\* every returned chunk that the fusion of the vector and the lexical
\* search gave satisfies the filter
PrimaryResultsObeyFilter ==
    /\ \A i \in DOMAIN variant_out :
          variant_out[i].done /\ ~variant_out[i].raised /\ Truthy(where_filter) =>
              ~variant_out[i].failed
    /\ pc = "done" /\ outcome = "returned" /\ all_queries # << >> /\ Truthy(where_filter) =>
          \A i \in DOMAIN items :
              (\E j \in DOMAIN fused : fused[j].id = items[i].id) =>
                  match_filter(items[i].metadata, where_filter)

\* C28: the list retrieve returns holds no chunk id twice
ReturnedIdsDistinct ==
    outcome = "returned" =>
        \A i, j \in DOMAIN items : items[i].id = items[j].id => i = j

====
